---- MODULE Spec2Model ----
(***************************************************************************)
(* The rules engine of the pirate game (game_state.py), the tools of the   *)
(* crew in front of it (game_tools.py) and the turn loop that drives them  *)
(* (pirate_game.py, ai_agents.py): the grid map, the cardinal path trace,  *)
(* ship movement with its encounters, cannon fire, the hostile pursuit     *)
(* phase, the reports of the crew and the order of a turn.  Every method   *)
(* is an operator from the object's fields (and the call's arguments) to   *)
(* the fields after the call and the value returned; every command is an   *)
(* action that applies its operator.  The step mode of the web interface   *)
(* (web_gui.py) is modelled as two threads sharing two flags.              *)
(***************************************************************************)
EXTENDS Integers, Sequences, FiniteSets, TLC

(* ---------------------------------------------------------------- bounds *)
\* successful moves allowed in one run (turn_count is otherwise unbounded)
MaxTurns == 1
\* largest |dx|+|dy| a caller asks move_ship for
MaxStep == 4
\* how far outside the map a caller aims the cannon
TargetPad == 1
\* largest radius a caller passes to scan_surroundings besides the default
MaxRadius == 1

\* turns the game loop runs in one game
MaxLoopTurns == 2
\* /step_game requests the browser sends in one game
MaxRequests == 5

(* ------------------------------------------------------ program constants *)
\* max_turns of PirateGame.run
max_turns == 50

\* rows and cells per row of the layout files given to the constructor
MaxRows == 2
MaxCols == 2

(* ------------------------------------------------------------ cell types *)
WATER == "W"
LAND == "L"
TREASURE == "T"
ENEMY == "E"
MONSTER == "M"
OWNSHIP == "O"
\* Python's None, returned by get_cell outside the map
None == "None"

Abs(n) == IF n < 0 THEN 0 - n ELSE n
Max(a, b) == IF a >= b THEN a ELSE b
Sign(n) == IF n > 0 THEN 1 ELSE IF n < 0 THEN 0 - 1 ELSE 0

Position(px, py) == [x |-> px, y |-> py]

(* --------------------------------------------------------------- layouts *)
\* The csv files a run is started from: rows of single-character cells.
LayoutA ==
  << <<"O", "T", "T">>,
     <<"W", "L", "E">> >>

\* a layout without treasure
LayoutB ==
  << <<"O", "W", "W", "W">>,
     <<"L", "L", "M", "W">> >>

\* a layout with enough hostiles to sink the ship
LayoutC ==
  << <<"O", "E">>,
     <<"E", "M">> >>

Layouts == {LayoutA, LayoutB, LayoutC}

\* a strait with a hostile at the far end of the cannon's range
LayoutD ==
  << <<"O", "W", "W", "W", "W", "E">> >>

\* three hostiles in a row next to the ship, a treasure, land
LayoutE ==
  << <<"O", "E", "M", "E">>,
     <<"T", "L", "W", "W">> >>

\* two hostiles whose preferred step is the same cell
LayoutF ==
  << <<"E", "W", "M">>,
     <<"W", "W", "W">>,
     <<"W", "O", "W">> >>

\* a hostile next to the ship and one out of pursuit range
LayoutG ==
  << <<"E", "O", "W", "W", "W", "M">>,
     <<"L", "T", "W", "W", "W", "W">> >>

\* a layout with a second ship marker
LayoutH ==
  << <<"O", "O", "E">> >>

GunneryLayouts == {LayoutD}

\* a row with one cell of every kind
LayoutQ ==
  << <<"M", "O", "T", "E", "L">> >>

QueryLayouts == {LayoutQ}

\* open water around one island: a hostile four miles off, one six miles off
LayoutS ==
  << <<OWNSHIP, WATER, WATER, TREASURE>>,
     <<WATER, LAND, WATER, WATER>>,
     <<WATER, WATER, ENEMY, WATER>>,
     <<WATER, WATER, WATER, MONSTER>> >>

\* an enemy in pursuit range but four miles off, a monster out of range
LayoutP ==
  << <<OWNSHIP, WATER, WATER, WATER, MONSTER>>,
     <<WATER, WATER, WATER, ENEMY, WATER>> >>

SurveyLayouts == {LayoutE, LayoutS, LayoutP}

\* an enemy on either side of the ship, a monster three miles from the only
\* treasure
LayoutK ==
  << <<ENEMY, OWNSHIP, WATER, MONSTER, TREASURE>>,
     <<WATER, ENEMY, WATER, WATER, WATER>> >>

\* a strait without treasure
LayoutZ == << <<OWNSHIP, WATER, ENEMY>> >>

LoopLayouts == {LayoutK, LayoutZ}

\* a treasure between the ship and an enemy
LayoutT == << <<OWNSHIP, TREASURE, ENEMY>> >>

\* the ship among four enemies
LayoutV ==
  << <<ENEMY, OWNSHIP, ENEMY>>,
     <<ENEMY, ENEMY, LAND>> >>

SkirmishLayouts == {LayoutT}

BoardingLayouts == {LayoutK, LayoutV}

PursuitLayouts == {LayoutE, LayoutF, LayoutG, LayoutH}

(* --------------------------------------------------------------- GameMap *)
load_map(layout) ==
  [grid |-> layout,
   height |-> Len(layout),
   width |-> IF Len(layout) > 0 THEN Len(layout[1]) ELSE 0]

is_valid_position(gm, pos) ==
  /\ 0 <= pos.x /\ pos.x < gm.width
  /\ 0 <= pos.y /\ pos.y < gm.height

get_cell(gm, pos) ==
  IF is_valid_position(gm, pos) THEN gm.grid[pos.y + 1][pos.x + 1] ELSE None

set_cell(gm, pos, value) ==
  IF is_valid_position(gm, pos)
  THEN [gm EXCEPT !.grid[pos.y + 1][pos.x + 1] = value]
  ELSE gm

can_move_to(gm, pos) ==
  IF ~is_valid_position(gm, pos) THEN FALSE ELSE get_cell(gm, pos) # LAND

\* the positions of the map in scan order: rows top to bottom, each left to right
ScanOrder(gm) ==
  [i \in 1..(gm.width * gm.height) |->
     Position((i - 1) % gm.width, (i - 1) \div gm.width)]

find_cell_type(gm, cell_type) ==
  SelectSeq(ScanOrder(gm), LAMBDA p : gm.grid[p.y + 1][p.x + 1] = cell_type)

\* one of the two loops of is_path_clear: n unit steps from current, stopping
\* at the first cell the ship cannot enter
RECURSIVE PathLoop(_, _, _, _, _, _)
PathLoop(gm, current, x_step, y_step, n, path) ==
  IF n = 0
  THEN [blocked |-> FALSE, current |-> current, path |-> path]
  ELSE LET nxt == Position(current.x + x_step, current.y + y_step)
       IN IF ~can_move_to(gm, nxt)
          THEN [blocked |-> TRUE, current |-> nxt, path |-> path]
          ELSE PathLoop(gm, nxt, x_step, y_step, n - 1, Append(path, nxt))

BlockedMessage(gm, at) ==
  [kind |-> "blocked", cell |-> get_cell(gm, at), x |-> at.x, y |-> at.y]

\* the walk takes the vertical steps before the horizontal ones
is_path_clear_vertical_first(gm, start, end) ==
  LET dx == end.x - start.x
      dy == end.y - start.y
      distance == Abs(dx) + Abs(dy)
  IN IF distance > 3
     THEN [clear |-> FALSE,
           message |-> [kind |-> "distance", distance |-> distance],
           path |-> << >>]
     ELSE LET v == PathLoop(gm, start, 0, Sign(dy), Abs(dy), <<start>>)
          IN IF v.blocked
             THEN [clear |-> FALSE, message |-> BlockedMessage(gm, v.current),
                   path |-> << >>]
             ELSE LET h == PathLoop(gm, v.current, Sign(dx), 0, Abs(dx), v.path)
                  IN IF h.blocked
                     THEN [clear |-> FALSE,
                           message |-> BlockedMessage(gm, h.current),
                           path |-> << >>]
                     ELSE [clear |-> TRUE, message |-> [kind |-> "clear"],
                           path |-> Tail(h.path)]

is_path_clear(gm, start, end) ==
  LET dx == end.x - start.x
      dy == end.y - start.y
      distance == Abs(dx) + Abs(dy)
  IN IF distance > 3
     THEN [clear |-> FALSE,
           message |-> [kind |-> "distance", distance |-> distance],
           path |-> << >>]
     ELSE LET h == PathLoop(gm, start, Sign(dx), 0, Abs(dx), <<start>>)
          IN IF h.blocked
             THEN [clear |-> FALSE, message |-> BlockedMessage(gm, h.current),
                   path |-> << >>]
             ELSE LET v == PathLoop(gm, h.current, 0, Sign(dy), Abs(dy), h.path)
                  IN IF v.blocked
                     THEN [clear |-> FALSE,
                           message |-> BlockedMessage(gm, v.current),
                           path |-> << >>]
                     ELSE [clear |-> TRUE, message |-> [kind |-> "clear"],
                           path |-> Tail(v.path)]

(* ------------------------------------------------------------- GameState *)
find_initial_ship_position(gm) ==
  LET ship_positions == find_cell_type(gm, OWNSHIP)
  IN IF ship_positions = << >> THEN "ValueError" ELSE ship_positions[1]

\* GameState.__init__ on a layout that holds a ship marker
GameState_init(layout) ==
  LET loaded == load_map(layout)
      ship == find_initial_ship_position(loaded)
      gm == set_cell(loaded, ship, WATER)
  IN [game_map |-> gm,
      ship_position |-> ship,
      treasures_collected |-> 0,
      lives |-> 3,
      cannonballs |-> 25,
      score |-> 0,
      enemies_defeated |-> 0,
      monsters_defeated |-> 0,
      turn_count |-> 0,
      game_over |-> FALSE,
      victory |-> FALSE,
      total_treasures |-> Len(find_cell_type(gm, TREASURE))]

\* GameState(map_path) on any layout the file may hold.  find_cell_type reads
\* grid[y][x] for every x below the width of the first row: a shorter row
\* ends the construction in an IndexError, a missing marker in a ValueError
GameState_construct(layout) ==
  LET loaded == load_map(layout)
  IN IF \E y \in 1..Len(layout) : Len(layout[y]) < loaded.width
     THEN [raised |-> "IndexError", state |-> None]
     ELSE IF find_cell_type(loaded, OWNSHIP) = << >>
     THEN [raised |-> "ValueError", state |-> None]
     ELSE [raised |-> None, state |-> GameState_init(layout)]

\* the treasure is counted but its cell is left on the map
collect_treasure_cell_kept(s, pos) ==
  [s EXCEPT !.treasures_collected = @ + 1,
            !.cannonballs = @ + 2,
            !.score = @ + 10]

collect_treasure(s, pos) ==
  [s EXCEPT !.treasures_collected = @ + 1,
            !.cannonballs = @ + 2,
            !.score = @ + 10,
            !.game_map = set_cell(@, pos, WATER)]

\* the ship is declared lost only below zero lives
take_damage_late(s) ==
  LET lives == s.lives - 1
  IN [s EXCEPT !.lives = lives,
               !.game_over = IF lives < 0 THEN TRUE ELSE @]

\* a lost life is counted as a turn
take_damage_costs_turn(s) ==
  LET lives == s.lives - 1
  IN [s EXCEPT !.lives = lives,
               !.game_over = IF lives <= 0 THEN TRUE ELSE @,
               !.turn_count = @ + 1]

take_damage(s) ==
  LET lives == s.lives - 1
  IN [s EXCEPT !.lives = lives,
               !.game_over = IF lives <= 0 THEN TRUE ELSE @]

EntityName(cell) == IF cell = ENEMY THEN "Enemy" ELSE "Monster"

\* the hostile lost in a collision is scored as a kill
resolve_collision_scores_kill(s, collision_position, entity_type) ==
  LET old_lives == s.lives
      d == take_damage(s)
  IN [state |-> [d EXCEPT !.game_map = set_cell(@, collision_position, WATER),
                          !.enemies_defeated = @ + 1,
                          !.score = @ + 10],
      message |-> [kind |-> "collision", entity |-> entity_type,
                   x |-> collision_position.x, y |-> collision_position.y,
                   damage_taken |-> old_lives - d.lives]]

\* a collision is paid ten points
resolve_collision_awards_points(s, collision_position, entity_type) ==
  LET old_lives == s.lives
      d == take_damage(s)
  IN [state |-> [d EXCEPT !.game_map = set_cell(@, collision_position, WATER),
                          !.score = @ + 10],
      message |-> [kind |-> "collision", entity |-> entity_type,
                   x |-> collision_position.x, y |-> collision_position.y,
                   damage_taken |-> old_lives - d.lives]]

resolve_collision(s, collision_position, entity_type) ==
  LET old_lives == s.lives
      d == take_damage(s)
  IN [state |-> [d EXCEPT !.game_map = set_cell(@, collision_position, WATER)],
      message |-> [kind |-> "collision", entity |-> entity_type,
                   x |-> collision_position.x, y |-> collision_position.y,
                   damage_taken |-> old_lives - d.lives]]

\* The scan visits every cell but acts only on the one whose coordinates are
\* the ship's, so at most one collision is resolved.
check_and_handle_position_overlaps(s) ==
  LET cell_content == get_cell(s.game_map, s.ship_position)
  IN IF cell_content \in {ENEMY, MONSTER}
     THEN LET r == resolve_collision(s, s.ship_position, EntityName(cell_content))
          IN [state |-> r.state, messages |-> <<r.message>>]
     ELSE [state |-> s, messages |-> << >>]

\* a hostile met on the path costs a life but stays in its cell
RECURSIVE MoveLoop_hostile_stays(_, _, _)
MoveLoop_hostile_stays(s, path, res) ==
  IF path = << >>
  THEN [state |-> s, res |-> res]
  ELSE LET step_pos == Head(path)
           cell_content == get_cell(s.game_map, step_pos)
       IN IF cell_content = TREASURE
          THEN MoveLoop_hostile_stays(collect_treasure(s, step_pos), Tail(path),
                 [res EXCEPT !.encounters =
                                Append(@, [position |-> step_pos, type |-> "treasure"]),
                             !.treasures_collected = @ + 1])
          ELSE IF cell_content \in {ENEMY, MONSTER}
          THEN MoveLoop_hostile_stays(take_damage(s), Tail(path),
                 [res EXCEPT !.encounters =
                                Append(@, [position |-> step_pos,
                                           type |-> IF cell_content = ENEMY
                                                    THEN "enemy" ELSE "monster"]),
                             !.damage_taken = @ + 1])
          ELSE MoveLoop_hostile_stays(s, Tail(path), res)

\* the for loop of move_ship over the steps of a clear path
RECURSIVE MoveLoop(_, _, _)
MoveLoop(s, path, res) ==
  IF path = << >>
  THEN [state |-> s, res |-> res]
  ELSE LET step_pos == Head(path)
           cell_content == get_cell(s.game_map, step_pos)
       IN IF cell_content = TREASURE
          THEN MoveLoop(collect_treasure(s, step_pos), Tail(path),
                 [res EXCEPT !.encounters =
                                Append(@, [position |-> step_pos, type |-> "treasure"]),
                             !.treasures_collected = @ + 1])
          ELSE IF cell_content \in {ENEMY, MONSTER}
          THEN LET d == take_damage(s)
                   damage == s.lives - d.lives
               IN MoveLoop([d EXCEPT !.game_map = set_cell(@, step_pos, WATER)],
                     Tail(path),
                     [res EXCEPT !.encounters =
                                    Append(@, [position |-> step_pos,
                                               type |-> IF cell_content = ENEMY
                                                        THEN "enemy" ELSE "monster"]),
                                 !.damage_taken = @ + damage])
          ELSE MoveLoop(s, Tail(path), res)

\* the ship arrives but the turn is not counted
FinishMove_turn_not_counted(s, target_position) ==
  [s EXCEPT !.ship_position = target_position]

\* a ship that has lost its last life does not arrive
FinishMove_sunk_ship_stays(s, target_position) ==
  [s EXCEPT !.ship_position = IF s.lives <= 0 THEN @ ELSE target_position,
            !.turn_count = @ + 1]

\* lines 227-229 of move_ship: the ship arrives and the turn is counted
FinishMove(s, target_position) ==
  [s EXCEPT !.ship_position = target_position, !.turn_count = @ + 1]

\* victory only once more treasures are counted than the layout held
EndOfMoveChecks_strict(s) ==
  LET v == IF s.treasures_collected > s.total_treasures
           THEN [s EXCEPT !.victory = TRUE, !.game_over = TRUE]
           ELSE s
  IN IF v.lives <= 0 THEN [v EXCEPT !.game_over = TRUE] ELSE v

\* lines 236-243 of move_ship: the victory check, then the game over check
EndOfMoveChecks(s) ==
  LET v == IF s.treasures_collected >= s.total_treasures
           THEN [s EXCEPT !.victory = TRUE, !.game_over = TRUE]
           ELSE s
  IN IF v.lives <= 0 THEN [v EXCEPT !.game_over = TRUE] ELSE v

\* move_ship with the turn counted before the path is checked
move_ship_counts_refused(s, direction) ==
  LET target_position == Position(s.ship_position.x + direction.x,
                                  s.ship_position.y + direction.y)
      pc == is_path_clear(s.game_map, s.ship_position, target_position)
  IN [state |-> [s EXCEPT !.turn_count = @ + 1], raised |-> FALSE,
      success |-> pc.clear, message |-> pc.message,
      move_results |-> [reason |-> "illegal_move", message |-> pc.message,
                        treasures_collected |-> 0, damage_taken |-> 0,
                        old_position |-> s.ship_position]]

\* raised = TRUE: line 234 reads success_message before it is assigned, the
\* call ends in an UnboundLocalError with the fields as they are at that line
move_ship(s, direction) ==
  LET target_position == Position(s.ship_position.x + direction.x,
                                  s.ship_position.y + direction.y)
      pc == is_path_clear(s.game_map, s.ship_position, target_position)
  IN IF ~pc.clear
     THEN [state |-> s, raised |-> FALSE, success |-> FALSE,
           message |-> pc.message,
           move_results |-> [reason |-> "illegal_move", message |-> pc.message]]
     ELSE LET l == MoveLoop(s, pc.path,
                     [success |-> TRUE,
                      old_position |-> s.ship_position,
                      path |-> pc.path,
                      encounters |-> << >>,
                      treasures_collected |-> 0,
                      damage_taken |-> 0,
                      final_position |-> target_position])
              moved == FinishMove(l.state, target_position)
              c == check_and_handle_position_overlaps(moved)
          IN IF c.messages # << >>
             THEN [state |-> c.state, raised |-> TRUE, success |-> FALSE,
                   message |-> [kind |-> "UnboundLocalError"],
                   move_results |-> l.res]
             ELSE [state |-> EndOfMoveChecks(c.state), raised |-> FALSE,
                   success |-> TRUE,
                   message |-> [kind |-> "moved", x |-> target_position.x,
                                y |-> target_position.y,
                                encounters |-> Len(l.res.encounters)],
                   move_results |-> l.res]

\* the table stops at distance 3
hit_chance_short_table(distance) ==
  IF distance = 3 THEN 75
  ELSE IF distance = 2 THEN 90
  ELSE IF distance = 1 THEN 95
  ELSE 25

\* hit_probabilities, in hundredths
hit_chance(distance) ==
  IF distance = 5 THEN 25
  ELSE IF distance = 4 THEN 50
  ELSE IF distance = 3 THEN 75
  ELSE IF distance = 2 THEN 90
  ELSE IF distance = 1 THEN 95
  ELSE 25

\* a Monster is scored as an Enemy
HitTarget_monster_as_enemy(fired, target_pos, cell_content) ==
  LET cleared == [fired EXCEPT !.game_map = set_cell(@, target_pos, WATER)]
      awarded == IF cell_content = ENEMY
                 THEN [cleared EXCEPT !.enemies_defeated = @ + 1,
                                      !.score = @ + 10]
                 ELSE [cleared EXCEPT !.monsters_defeated = @ + 1,
                                      !.score = @ + 10]
  IN [state |-> awarded, success |-> TRUE,
      message |-> [kind |-> "hit",
                   target_type |-> EntityName(cell_content),
                   x |-> target_pos.x, y |-> target_pos.y,
                   points |-> 10,
                   score |-> awarded.score,
                   cannonballs |-> awarded.cannonballs]]

\* lines 345-360 of fire_cannon: the target is destroyed and points awarded
HitTarget(fired, target_pos, cell_content) ==
  LET cleared == [fired EXCEPT !.game_map = set_cell(@, target_pos, WATER)]
      awarded == IF cell_content = ENEMY
                 THEN [cleared EXCEPT !.enemies_defeated = @ + 1,
                                      !.score = @ + 10]
                 ELSE [cleared EXCEPT !.monsters_defeated = @ + 1,
                                      !.score = @ + 50]
  IN [state |-> awarded, success |-> TRUE,
      message |-> [kind |-> "hit",
                   target_type |-> EntityName(cell_content),
                   x |-> target_pos.x, y |-> target_pos.y,
                   points |-> IF cell_content = ENEMY THEN 10 ELSE 50,
                   score |-> awarded.score,
                   cannonballs |-> awarded.cannonballs]]

\* a shot at a cell that is not hostile clears that cell
ResolveShot_clears_cell(s, target_pos, distance, roll) ==
  LET cell_content == get_cell(s.game_map, target_pos)
      fired == [s EXCEPT !.cannonballs = @ - 1]
  IN IF cell_content \in {ENEMY, MONSTER}
     THEN IF roll <= hit_chance(distance)
          THEN HitTarget(fired, target_pos, cell_content)
          ELSE [state |-> fired, success |-> FALSE,
                message |-> [kind |-> "miss", x |-> target_pos.x,
                             y |-> target_pos.y,
                             hit_chance |-> hit_chance(distance),
                             cannonballs |-> fired.cannonballs]]
     ELSE [state |-> [fired EXCEPT !.game_map = set_cell(@, target_pos, WATER)],
           success |-> FALSE,
           message |-> [kind |-> "empty_water", x |-> target_pos.x,
                        y |-> target_pos.y,
                        cannonballs |-> fired.cannonballs]]

\* lines 334-369 of fire_cannon: an accepted shot.  roll is the value
\* random.random() returns, in hundredths
ResolveShot(s, target_pos, distance, roll) ==
  LET cell_content == get_cell(s.game_map, target_pos)
      fired == [s EXCEPT !.cannonballs = @ - 1]
  IN IF cell_content \in {ENEMY, MONSTER}
     THEN IF roll <= hit_chance(distance)
          THEN HitTarget(fired, target_pos, cell_content)
          ELSE [state |-> fired, success |-> FALSE,
                message |-> [kind |-> "miss", x |-> target_pos.x,
                             y |-> target_pos.y,
                             hit_chance |-> hit_chance(distance),
                             cannonballs |-> fired.cannonballs]]
     ELSE [state |-> fired, success |-> FALSE,
           message |-> [kind |-> "empty_water", x |-> target_pos.x,
                        y |-> target_pos.y,
                        cannonballs |-> fired.cannonballs]]

\* the cannonball is taken before the range is checked
fire_cannon_consumes_first(s, target_pos, roll) ==
  IF s.cannonballs <= 0
  THEN [state |-> s, success |-> FALSE, message |-> [kind |-> "no_cannonballs"]]
  ELSE LET distance == Abs(target_pos.x - s.ship_position.x)
                         + Abs(target_pos.y - s.ship_position.y)
       IN IF distance > 5
          THEN [state |-> [s EXCEPT !.cannonballs = @ - 1], success |-> FALSE,
                message |-> [kind |-> "too_far", distance |-> distance]]
          ELSE ResolveShot(s, target_pos, distance, roll)

\* the ammunition check lets an empty magazine through
fire_cannon_empty_magazine(s, target_pos, roll) ==
  IF s.cannonballs < 0
  THEN [state |-> s, success |-> FALSE, message |-> [kind |-> "no_cannonballs"]]
  ELSE LET distance == Abs(target_pos.x - s.ship_position.x)
                         + Abs(target_pos.y - s.ship_position.y)
       IN IF distance > 5
          THEN [state |-> s, success |-> FALSE,
                message |-> [kind |-> "too_far", distance |-> distance]]
          ELSE ResolveShot(s, target_pos, distance, roll)

fire_cannon(s, target_pos, roll) ==
  IF s.cannonballs <= 0
  THEN [state |-> s, success |-> FALSE, message |-> [kind |-> "no_cannonballs"]]
  ELSE LET distance == Abs(target_pos.x - s.ship_position.x)
                         + Abs(target_pos.y - s.ship_position.y)
       IN IF distance > 5
          THEN [state |-> s, success |-> FALSE,
                message |-> [kind |-> "too_far", distance |-> distance]]
          ELSE ResolveShot(s, target_pos, distance, roll)

\* the diagonal step is tried last
movement_options_diagonal_last(current_pos, move_x, move_y) ==
  (IF move_x # 0 THEN <<Position(current_pos.x + move_x, current_pos.y)>> ELSE << >>)
  \o (IF move_y # 0 THEN <<Position(current_pos.x, current_pos.y + move_y)>> ELSE << >>)
  \o (IF move_x # 0 /\ move_y # 0
      THEN <<Position(current_pos.x + move_x, current_pos.y + move_y)>> ELSE << >>)

\* the candidate cells of one in-range hostile, in order of preference
movement_options(current_pos, move_x, move_y) ==
  (IF move_x # 0 /\ move_y # 0
   THEN <<Position(current_pos.x + move_x, current_pos.y + move_y)>> ELSE << >>)
  \o (IF move_x # 0 THEN <<Position(current_pos.x + move_x, current_pos.y)>> ELSE << >>)
  \o (IF move_y # 0 THEN <<Position(current_pos.x, current_pos.y + move_y)>> ELSE << >>)

\* a relocated hostile is also left in its old cell
RECURSIVE TryOptions_old_cell_kept(_, _, _, _)
TryOptions_old_cell_kept(s, entity, options, distance) ==
  IF options = << >>
  THEN [state |-> s,
        entry |-> [entity_type |-> EntityName(entity.type),
                   from |-> entity.position, to |-> entity.position,
                   kind |-> "blocked", distance_to_ship |-> distance]]
  ELSE LET new_pos == Head(options)
       IN IF is_valid_position(s.game_map, new_pos)
             /\ get_cell(s.game_map, new_pos) = WATER
          THEN IF new_pos.x = s.ship_position.x /\ new_pos.y = s.ship_position.y
               THEN LET r == resolve_collision(s, entity.position,
                                               EntityName(entity.type))
                    IN [state |-> r.state,
                        entry |-> [entity_type |-> EntityName(entity.type),
                                   from |-> entity.position, to |-> new_pos,
                                   kind |-> "collision", distance_to_ship |-> 0]]
               ELSE [state |-> [s EXCEPT !.game_map =
                                   set_cell(@, new_pos, entity.type)],
                     entry |-> [entity_type |-> EntityName(entity.type),
                                from |-> entity.position, to |-> new_pos,
                                kind |-> "move",
                                distance_to_ship |->
                                  Max(Abs(s.ship_position.x - new_pos.x),
                                      Abs(s.ship_position.y - new_pos.y))]]
          ELSE TryOptions_old_cell_kept(s, entity, Tail(options), distance)

\* a hostile also steps onto a treasure cell
RECURSIVE TryOptions_onto_treasure(_, _, _, _)
TryOptions_onto_treasure(s, entity, options, distance) ==
  IF options = << >>
  THEN [state |-> s,
        entry |-> [entity_type |-> EntityName(entity.type),
                   from |-> entity.position, to |-> entity.position,
                   kind |-> "blocked", distance_to_ship |-> distance]]
  ELSE LET new_pos == Head(options)
       IN IF is_valid_position(s.game_map, new_pos)
             /\ get_cell(s.game_map, new_pos) \in {WATER, TREASURE}
          THEN IF new_pos.x = s.ship_position.x /\ new_pos.y = s.ship_position.y
               THEN LET r == resolve_collision(s, entity.position,
                                               EntityName(entity.type))
                    IN [state |-> r.state,
                        entry |-> [entity_type |-> EntityName(entity.type),
                                   from |-> entity.position, to |-> new_pos,
                                   kind |-> "collision", distance_to_ship |-> 0]]
               ELSE [state |-> [s EXCEPT !.game_map =
                                   set_cell(set_cell(@, entity.position, WATER),
                                            new_pos, entity.type)],
                     entry |-> [entity_type |-> EntityName(entity.type),
                                from |-> entity.position, to |-> new_pos,
                                kind |-> "move",
                                distance_to_ship |->
                                  Max(Abs(s.ship_position.x - new_pos.x),
                                      Abs(s.ship_position.y - new_pos.y))]]
          ELSE TryOptions_onto_treasure(s, entity, Tail(options), distance)

\* the entry of a normal step records the distance before the step
RECURSIVE TryOptions_stale_distance(_, _, _, _)
TryOptions_stale_distance(s, entity, options, distance) ==
  IF options = << >>
  THEN [state |-> s,
        entry |-> [entity_type |-> EntityName(entity.type),
                   from |-> entity.position, to |-> entity.position,
                   kind |-> "blocked", distance_to_ship |-> distance]]
  ELSE LET new_pos == Head(options)
       IN IF is_valid_position(s.game_map, new_pos)
             /\ get_cell(s.game_map, new_pos) = WATER
          THEN IF new_pos.x = s.ship_position.x /\ new_pos.y = s.ship_position.y
               THEN LET r == resolve_collision(s, entity.position,
                                               EntityName(entity.type))
                    IN [state |-> r.state,
                        entry |-> [entity_type |-> EntityName(entity.type),
                                   from |-> entity.position, to |-> new_pos,
                                   kind |-> "collision", distance_to_ship |-> 0]]
               ELSE [state |-> [s EXCEPT !.game_map =
                                   set_cell(set_cell(@, entity.position, WATER),
                                            new_pos, entity.type)],
                     entry |-> [entity_type |-> EntityName(entity.type),
                                from |-> entity.position, to |-> new_pos,
                                kind |-> "move",
                                distance_to_ship |-> distance]]
          ELSE TryOptions_stale_distance(s, entity, Tail(options), distance)

\* the "for new_pos in movement_options" loop: the first candidate that is on
\* the map and Water is taken (as a collision when it is the ship's cell)
RECURSIVE TryOptions(_, _, _, _)
TryOptions(s, entity, options, distance) ==
  IF options = << >>
  THEN [state |-> s,
        entry |-> [entity_type |-> EntityName(entity.type),
                   from |-> entity.position, to |-> entity.position,
                   kind |-> "blocked", distance_to_ship |-> distance]]
  ELSE LET new_pos == Head(options)
       IN IF is_valid_position(s.game_map, new_pos)
             /\ get_cell(s.game_map, new_pos) = WATER
          THEN IF new_pos.x = s.ship_position.x /\ new_pos.y = s.ship_position.y
               THEN LET r == resolve_collision(s, entity.position,
                                               EntityName(entity.type))
                    IN [state |-> r.state,
                        entry |-> [entity_type |-> EntityName(entity.type),
                                   from |-> entity.position, to |-> new_pos,
                                   kind |-> "collision", distance_to_ship |-> 0]]
               ELSE [state |-> [s EXCEPT !.game_map =
                                   set_cell(set_cell(@, entity.position, WATER),
                                            new_pos, entity.type)],
                     entry |-> [entity_type |-> EntityName(entity.type),
                                from |-> entity.position, to |-> new_pos,
                                kind |-> "move",
                                distance_to_ship |->
                                  Max(Abs(s.ship_position.x - new_pos.x),
                                      Abs(s.ship_position.y - new_pos.y))]]
          ELSE TryOptions(s, entity, Tail(options), distance)

\* hostiles four cells away pursue as well
RECURSIVE EntityLoop_range_four(_, _, _)
EntityLoop_range_four(s, entities, movements) ==
  IF entities = << >>
  THEN [state |-> s, movements |-> movements]
  ELSE LET entity == Head(entities)
           current_pos == entity.position
           dx == s.ship_position.x - current_pos.x
           dy == s.ship_position.y - current_pos.y
           distance == Max(Abs(dx), Abs(dy))
       IN IF distance <= 4
          THEN LET t == TryOptions(s, entity,
                          movement_options(current_pos, Sign(dx), Sign(dy)),
                          distance)
               IN EntityLoop_range_four(t.state, Tail(entities),
                                        Append(movements, t.entry))
          ELSE EntityLoop_range_four(s, Tail(entities), movements)

\* the "for entity in entities_to_move" loop
RECURSIVE EntityLoop(_, _, _)
EntityLoop(s, entities, movements) ==
  IF entities = << >>
  THEN [state |-> s, movements |-> movements]
  ELSE LET entity == Head(entities)
           current_pos == entity.position
           dx == s.ship_position.x - current_pos.x
           dy == s.ship_position.y - current_pos.y
           distance == Max(Abs(dx), Abs(dy))
       IN IF distance <= 3
          THEN LET t == TryOptions(s, entity,
                          movement_options(current_pos, Sign(dx), Sign(dy)),
                          distance)
               IN EntityLoop(t.state, Tail(entities), Append(movements, t.entry))
          ELSE EntityLoop(s, Tail(entities), movements)

\* the hostiles are listed from the last cell of the scan to the first
entities_to_move_last_first(gm) ==
  LET hostile == SelectSeq(ScanOrder(gm),
                   LAMBDA p : get_cell(gm, p) \in {ENEMY, MONSTER})
  IN [i \in 1..Len(hostile) |->
        [position |-> hostile[Len(hostile) + 1 - i],
         type |-> get_cell(gm, hostile[Len(hostile) + 1 - i])]]

entities_to_move(gm) ==
  LET hostile == SelectSeq(ScanOrder(gm),
                   LAMBDA p : get_cell(gm, p) \in {ENEMY, MONSTER})
  IN [i \in 1..Len(hostile) |->
        [position |-> hostile[i], type |-> get_cell(gm, hostile[i])]]

move_enemies_and_monsters(s) ==
  LET l == EntityLoop(s, entities_to_move(s.game_map), << >>)
      c == check_and_handle_position_overlaps(l.state)
  IN [state |-> c.state, movements |-> l.movements]

(* --------------------------------------------------------- CannoneerTool *)
CannoneerTool_fire_cannon(s, target_x, target_y, roll) ==
  LET target_pos == Position(target_x, target_y)
      distance == Abs(target_pos.x - s.ship_position.x)
                    + Abs(target_pos.y - s.ship_position.y)
  IN IF distance > 5
     THEN [state |-> s,
           result |-> [success |-> FALSE,
                       message |-> [kind |-> "out_of_range", distance |-> distance],
                       range_limit |-> 5,
                       cannonballs_remaining |-> s.cannonballs]]
     ELSE IF s.cannonballs <= 0
     THEN [state |-> s,
           result |-> [success |-> FALSE,
                       message |-> [kind |-> "no_cannonballs"],
                       cannonballs_remaining |-> 0]]
     ELSE LET f == fire_cannon(s, target_pos, roll)
          IN [state |-> f.state,
              result |-> [success |-> f.success,
                          message |-> f.message,
                          target_destroyed |-> f.success,
                          cannonballs_remaining |-> f.state.cannonballs,
                          cannonballs_used |-> IF f.success THEN 1 ELSE 0]]

\* hit_probabilities of get_targets_in_range, in hundredths
targets_hit_chance(distance) ==
  IF distance = 5 THEN 25
  ELSE IF distance = 4 THEN 50
  ELSE IF distance = 3 THEN 75
  ELSE IF distance = 2 THEN 90
  ELSE IF distance = 1 THEN 95
  ELSE 25

\* get_direction of get_targets_in_range
target_direction(from_pos, to_pos) ==
  LET dx == to_pos.x - from_pos.x
      dy == to_pos.y - from_pos.y
  IN IF Abs(dx) > Abs(dy)
     THEN (IF dx > 0 THEN "East" ELSE "West")
     ELSE (IF dy > 0 THEN "South" ELSE "North")

\* the offsets "for dx in range(-5, 6): for dy in range(-5, 6)" visits, in order
RangeOffsets ==
  [i \in 1..121 |-> [dx |-> ((i - 1) \div 11) - 5, dy |-> ((i - 1) % 11) - 5]]

\* every hostile of the 11 x 11 box is listed, whatever its distance
get_targets_in_range_whole_box(s) ==
  LET ship_pos == s.ship_position
      Listed(o) ==
        /\ ~(o.dx = 0 /\ o.dy = 0)
        /\ is_valid_position(s.game_map,
                             Position(ship_pos.x + o.dx, ship_pos.y + o.dy))
        /\ get_cell(s.game_map, Position(ship_pos.x + o.dx, ship_pos.y + o.dy))
             \in {ENEMY, MONSTER}
      found == SelectSeq(RangeOffsets, Listed)
  IN [state |-> s,
      answer |->
        [i \in 1..Len(found) |->
           LET target_pos == Position(ship_pos.x + found[i].dx,
                                      ship_pos.y + found[i].dy)
               cell == get_cell(s.game_map, target_pos)
               distance == Abs(found[i].dx) + Abs(found[i].dy)
           IN [direction |-> target_direction(ship_pos, target_pos),
               type |-> IF cell = ENEMY THEN "Enemy" ELSE "Monster",
               threat_level |-> IF cell = MONSTER THEN "High" ELSE "Medium",
               distance |-> distance,
               hit_chance |-> targets_hit_chance(distance),
               _position |-> target_pos]]]

\* lines 124-174: the hostiles within Manhattan distance 5, column by column
get_targets_in_range(s) ==
  LET ship_pos == s.ship_position
      Listed(o) ==
        /\ ~(o.dx = 0 /\ o.dy = 0)
        /\ Abs(o.dx) + Abs(o.dy) <= 5
        /\ is_valid_position(s.game_map,
                             Position(ship_pos.x + o.dx, ship_pos.y + o.dy))
        /\ get_cell(s.game_map, Position(ship_pos.x + o.dx, ship_pos.y + o.dy))
             \in {ENEMY, MONSTER}
      found == SelectSeq(RangeOffsets, Listed)
  IN [state |-> s,
      answer |->
        [i \in 1..Len(found) |->
           LET target_pos == Position(ship_pos.x + found[i].dx,
                                      ship_pos.y + found[i].dy)
               cell == get_cell(s.game_map, target_pos)
               distance == Abs(found[i].dx) + Abs(found[i].dy)
           IN [direction |-> target_direction(ship_pos, target_pos),
               type |-> IF cell = ENEMY THEN "Enemy" ELSE "Monster",
               threat_level |-> IF cell = MONSTER THEN "High" ELSE "Medium",
               distance |-> distance,
               hit_chance |-> targets_hit_chance(distance),
               _position |-> target_pos]]]

(* ------------------------------------------------------ GameState queries *)
\* pursuit is measured in Manhattan distance
get_pursuing_entities_manhattan(s) ==
  LET hostile == SelectSeq(ScanOrder(s.game_map),
                   LAMBDA p : get_cell(s.game_map, p) \in {ENEMY, MONSTER})
      near == SelectSeq(hostile,
                LAMBDA p : Abs(s.ship_position.x - p.x)
                           + Abs(s.ship_position.y - p.y) <= 3)
  IN [i \in 1..Len(near) |->
        [position |-> near[i],
         type |-> get_cell(s.game_map, near[i]),
         distance |-> Abs(s.ship_position.x - near[i].x)
                      + Abs(s.ship_position.y - near[i].y)]]

get_pursuing_entities(s) ==
  LET hostile == SelectSeq(ScanOrder(s.game_map),
                   LAMBDA p : get_cell(s.game_map, p) \in {ENEMY, MONSTER})
      near == SelectSeq(hostile,
                LAMBDA p : Max(Abs(s.ship_position.x - p.x),
                               Abs(s.ship_position.y - p.y)) <= 3)
  IN [i \in 1..Len(near) |->
        [position |-> near[i],
         type |-> get_cell(s.game_map, near[i]),
         distance |-> Max(Abs(s.ship_position.x - near[i].x),
                          Abs(s.ship_position.y - near[i].y))]]

get_status(s) ==
  [state |-> s,
   answer |->
     [ship_position |-> s.ship_position,
      lives |-> s.lives,
      treasures_collected |-> s.treasures_collected,
      total_treasures |-> s.total_treasures,
      cannonballs |-> s.cannonballs,
      score |-> s.score,
      enemies_defeated |-> s.enemies_defeated,
      monsters_defeated |-> s.monsters_defeated,
      turn_count |-> s.turn_count,
      game_over |-> s.game_over,
      victory |-> s.victory,
      pursuing_entities |-> get_pursuing_entities(s)]]

(* ----------------------------------------------------------- CaptainTool *)
\* directions of get_possible_moves, in the order it tries them
CardinalDirections ==
  << [dx |-> 0, dy |-> 0 - 1, name |-> "North", letter |-> "N"],
     [dx |-> 0, dy |-> 1, name |-> "South", letter |-> "S"],
     [dx |-> 0 - 1, dy |-> 0, name |-> "West", letter |-> "W"],
     [dx |-> 1, dy |-> 0, name |-> "East", letter |-> "E"] >>

\* monsters on the path are counted with the enemies
path_analysis_monsters_as_enemies(gm, path) ==
  LET Of(cell_type) == SelectSeq(path, LAMBDA p : get_cell(gm, p) = cell_type)
      special == SelectSeq(path,
                   LAMBDA p : get_cell(gm, p) \in {TREASURE, ENEMY, MONSTER})
  IN [encounters |->
        [i \in 1..Len(special) |->
           [what |-> get_cell(gm, special[i]),
            x |-> special[i].x, y |-> special[i].y]],
      risk_assessment |-> [level |-> "Dangerous", count |-> 0],
      treasures_on_path |-> Len(Of(TREASURE)),
      enemies_on_path |-> Len(Of(ENEMY)) + Len(Of(MONSTER)),
      monsters_on_path |-> 0]

\* enemies outrank monsters in the risk level
path_analysis_enemies_first(gm, path) ==
  LET Of(cell_type) == SelectSeq(path, LAMBDA p : get_cell(gm, p) = cell_type)
      special == SelectSeq(path,
                   LAMBDA p : get_cell(gm, p) \in {TREASURE, ENEMY, MONSTER})
      treasures_count == Len(Of(TREASURE))
      enemies_count == Len(Of(ENEMY))
      monsters_count == Len(Of(MONSTER))
  IN [encounters |->
        [i \in 1..Len(special) |->
           [what |-> get_cell(gm, special[i]),
            x |-> special[i].x, y |-> special[i].y]],
      risk_assessment |->
        IF enemies_count > 0
        THEN [level |-> "Dangerous", count |-> enemies_count]
        ELSE IF monsters_count > 0
        THEN [level |-> "Very Dangerous", count |-> monsters_count]
        ELSE IF treasures_count > 0
        THEN [level |-> "Rewarding", count |-> treasures_count]
        ELSE [level |-> "Safe", count |-> 0],
      treasures_on_path |-> treasures_count,
      enemies_on_path |-> enemies_count,
      monsters_on_path |-> monsters_count]

\* the "for step_pos in path" loop and the risk level it leads to
path_analysis(gm, path) ==
  LET Of(cell_type) == SelectSeq(path, LAMBDA p : get_cell(gm, p) = cell_type)
      special == SelectSeq(path,
                   LAMBDA p : get_cell(gm, p) \in {TREASURE, ENEMY, MONSTER})
      treasures_count == Len(Of(TREASURE))
      enemies_count == Len(Of(ENEMY))
      monsters_count == Len(Of(MONSTER))
  IN [encounters |->
        [i \in 1..Len(special) |->
           [what |-> get_cell(gm, special[i]),
            x |-> special[i].x, y |-> special[i].y]],
      risk_assessment |->
        IF monsters_count > 0
        THEN [level |-> "Very Dangerous", count |-> monsters_count]
        ELSE IF enemies_count > 0
        THEN [level |-> "Dangerous", count |-> enemies_count]
        ELSE IF treasures_count > 0
        THEN [level |-> "Rewarding", count |-> treasures_count]
        ELSE [level |-> "Safe", count |-> 0],
      treasures_on_path |-> treasures_count,
      enemies_on_path |-> enemies_count,
      monsters_on_path |-> monsters_count]

\* one entry of possible_moves: distance miles in direction c
possible_move(s, c, distance) ==
  LET dx == c.dx * distance
      dy == c.dy * distance
      target_pos == Position(s.ship_position.x + dx, s.ship_position.y + dy)
      common == [direction |-> Position(dx, dy),
                 command_format |-> [miles |-> distance, letter |-> c.letter],
                 target_position |-> [miles |-> distance, name |-> c.name],
                 distance |-> distance]
  IN IF is_valid_position(s.game_map, target_pos)
     THEN LET p == is_path_clear(s.game_map, s.ship_position, target_pos)
          IN IF p.clear
             THEN LET a == path_analysis(s.game_map, p.path)
                  IN [common |-> common, can_move |-> TRUE, path |-> p.path,
                      encounters |-> a.encounters,
                      risk_assessment |-> a.risk_assessment,
                      treasures_on_path |-> a.treasures_on_path,
                      enemies_on_path |-> a.enemies_on_path,
                      monsters_on_path |-> a.monsters_on_path]
             ELSE [common |-> common, can_move |-> FALSE,
                   blocked_reason |-> p.message,
                   risk_assessment |-> [level |-> "Blocked", count |-> 0]]
     ELSE [common |-> common, can_move |-> FALSE,
           blocked_reason |-> [kind |-> "outside_map"],
           risk_assessment |-> [level |-> "Off Map", count |-> 0]]

\* the moves are tried out on the game itself
get_possible_moves_tried_out(s) ==
  [state |-> move_ship(s, Position(1, 0)).state,
   answer |->
     [i \in 1..12 |->
        possible_move(s, CardinalDirections[((i - 1) \div 3) + 1],
                      ((i - 1) % 3) + 1)]]

get_possible_moves(s) ==
  [state |-> s,
   answer |->
     [i \in 1..12 |->
        possible_move(s, CardinalDirections[((i - 1) \div 3) + 1],
                      ((i - 1) % 3) + 1)]]

(* --------------------------------------------------------- NavigatorTool *)
\* the keys of the dict get_surrounding_cells builds, in insertion order
get_surrounding_cells(gm, pos, radius) ==
  LET side == 2 * radius + 1
      box == [i \in 1..(side * side) |->
                Position(pos.x + ((i - 1) % side) - radius,
                         pos.y + ((i - 1) \div side) - radius)]
  IN SelectSeq(box, LAMBDA p : is_valid_position(gm, p))

\* the cells a land cell stands in front of, seen from from_pos: some Land
\* cell other than the two ends lies in the rectangle the two ends span
behind_land(gm, from_pos) ==
  {p \in {q \in [x : 0..(gm.width - 1), y : 0..(gm.height - 1)] : q # from_pos} :
     \E l \in [x : 0..(gm.width - 1), y : 0..(gm.height - 1)] :
       /\ get_cell(gm, l) = LAND
       /\ l # p
       /\ l # from_pos
       /\ Abs(l.x - from_pos.x) <= Abs(p.x - from_pos.x)
       /\ Abs(l.y - from_pos.y) <= Abs(p.y - from_pos.y)
       /\ (l.x - from_pos.x) * (p.x - from_pos.x) >= 0
       /\ (l.y - from_pos.y) * (p.y - from_pos.y) >= 0}

\* GameMap.has_line_of_sight, which scan_surroundings calls: blocked is the
\* set of cells the configured line-of-sight filter reports as blocked by
\* intervening land (empty when the filter is off)
has_line_of_sight(gm, from_pos, to_pos, blocked) ==
  to_pos \notin (blocked \cap behind_land(gm, from_pos))

\* get_direction of scan_surroundings: the miles north or south and the
\* miles east or west that the string spells out
scan_direction(from_pos, to_pos) ==
  [ns |-> to_pos.y - from_pos.y, ew |-> to_pos.x - from_pos.x]

\* list.sort(key=distance): stable, ascending
RECURSIVE sort_by_distance(_, _, _)
sort_by_distance(items, d, top) ==
  IF d > top THEN << >>
  ELSE SelectSeq(items, LAMBDA t : t.distance = d)
         \o sort_by_distance(items, d + 1, top)

generate_scan_summary(treasures, enemies, monsters) ==
  LET threats == enemies \o monsters
      immediate_threats == SelectSeq(threats, LAMBDA t : t.distance <= 1)
      nearby_threats == SelectSeq(threats,
                          LAMBDA t : 1 < t.distance /\ t.distance <= 2)
      summary ==
        (IF treasures # << >>
         THEN << [kind |-> "nearest_treasure", count |-> treasures[1].distance,
                  direction |-> treasures[1].direction] >>
         ELSE << >>)
        \o (IF immediate_threats # << >>
            THEN << [kind |-> "danger", count |-> Len(immediate_threats),
                     direction |-> None] >>
            ELSE << >>)
        \o (IF nearby_threats # << >>
            THEN << [kind |-> "threats_within_2", count |-> Len(nearby_threats),
                     direction |-> None] >>
            ELSE << >>)
  IN IF summary = << >>
     THEN << [kind |-> "area_appears_safe", count |-> 0, direction |-> None] >>
     ELSE summary

scan_surroundings(s, radius, blocked) ==
  LET ship_pos == s.ship_position
      surrounding_cells == get_surrounding_cells(s.game_map, ship_pos, radius)
      seen == SelectSeq(surrounding_cells,
                LAMBDA p : /\ p # ship_pos
                           /\ has_line_of_sight(s.game_map, ship_pos, p, blocked))
      Entry(p) == [direction |-> scan_direction(ship_pos, p),
                   distance |-> Abs(p.x - ship_pos.x) + Abs(p.y - ship_pos.y)]
      Of(cell_type) ==
        LET cells == SelectSeq(seen, LAMBDA p : get_cell(s.game_map, p) = cell_type)
        IN [i \in 1..Len(cells) |-> Entry(cells[i])]
      top == s.game_map.width + s.game_map.height
      treasures == sort_by_distance(Of(TREASURE), 0, top)
      enemies == sort_by_distance(Of(ENEMY), 0, top)
      monsters == sort_by_distance(Of(MONSTER), 0, top)
  IN [state |-> s,
      answer |-> [scan_radius |-> radius,
                  treasures_nearby |-> treasures,
                  enemies_nearby |-> enemies,
                  monsters_nearby |-> monsters,
                  land_obstacles |-> Of(LAND),
                  safe_water_positions |-> Of(WATER),
                  immediate_threats |->
                    SelectSeq(enemies \o monsters, LAMBDA t : t.distance <= 1),
                  reachable_treasures |->
                    SelectSeq(treasures, LAMBDA t : t.distance <= 3),
                  summary |-> generate_scan_summary(treasures, enemies, monsters)]]

\* GameTools.get_game_status: the status with the three reports of the tools
get_game_status(s, blocked) ==
  [state |-> s,
   answer |-> [status |-> get_status(s).answer,
               scan_report |-> scan_surroundings(s, 5, blocked).answer,
               available_targets |-> get_targets_in_range(s).answer,
               possible_moves |-> get_possible_moves(s).answer]]

(* ------------------------------------------------- the crew and the loop *)
\* lines 333-368 of CaptainTool.move_ship: the report built from what
\* GameState.move_ship returned (m) and the fields before the call (s)
CaptainTool_move_report(s, m) ==
  IF ~m.success
  THEN [state |-> m.state,
        result |-> [success |-> FALSE, reason |-> "illegal_move",
                    message |-> m.message,
                    current_position |-> s.ship_position,
                    turn_count |-> m.state.turn_count]]
  ELSE [state |-> m.state,
        result |-> [success |-> TRUE, message |-> m.message,
                    old_position |-> s.ship_position,
                    new_position |-> m.state.ship_position,
                    encounters |-> m.move_results.encounters,
                    lives_lost |-> s.lives - m.state.lives,
                    treasures_gained |-> m.move_results.treasures_collected,
                    cannonballs_gained |-> m.state.cannonballs - s.cannonballs,
                    turn_count |-> m.state.turn_count,
                    game_over |-> m.state.game_over,
                    victory |-> m.state.victory]]

CaptainTool_move_ship(s, direction_x, direction_y) ==
  CaptainTool_move_report(s, move_ship(s, Position(direction_x, direction_y)))

\* the "for target in targets" loop of the cannoneer: one shot at each target
\* of the list until a shot hits
RECURSIVE FireLoop(_, _, _, _)
FireLoop(s, targets, rolls, events) ==
  IF targets = << >>
  THEN [state |-> s, events |-> events]
  ELSE LET pos == Head(targets)._position
           r == CannoneerTool_fire_cannon(s, pos.x, pos.y, Head(rolls))
       IN IF r.result.success
          THEN [state |-> r.state, events |-> Append(events, "fire_cannon")]
          ELSE FireLoop(r.state, Tail(targets), Tail(rolls),
                        Append(events, "fire_cannon"))

\* the cannoneer node: fire is whether the answer of the language model says
\* "fire"; rolls are the values random.random() returns, shot by shot
cannoneer_agent(s, fire, rolls) ==
  LET targets == get_targets_in_range(s).answer
  IN IF targets # << >> /\ fire
     THEN FireLoop(s, targets, rolls, << >>)
     ELSE [state |-> s, events |-> << >>]

\* direction_map of the captain node: the unit vector of a letter
direction_map(letter) ==
  CASE letter = "N" -> Position(0, 0 - 1)
    [] letter = "S" -> Position(0, 1)
    [] letter = "E" -> Position(1, 0)
    [] letter = "W" -> Position(0 - 1, 0)

\* the captain node: matches are the "@<miles><letter>" commands found in the
\* answer of the language model, in order; the last one is carried out
\* through the captain's tool (moved: a command was found)
captain_agent(s, matches) ==
  IF matches = << >>
  THEN [moved |-> FALSE, tool |-> [state |-> s, result |-> [success |-> FALSE]]]
  ELSE LET last == matches[Len(matches)]
           unit_vector == direction_map(last.letter)
       IN [moved |-> TRUE,
           tool |-> CaptainTool_move_ship(s, unit_vector.x * last.miles,
                                          unit_vector.y * last.miles)]

\* the turn ends without the pursuit phase
process_turn_results_no_pursuit(s) ==
  [state |-> s,
   events |-> << >>,
   raised |-> s.total_treasures = 0,
   outcome |-> IF s.victory THEN "VICTORY"
               ELSE IF s.lives <= 0 THEN "DEFEAT"
               ELSE "CONTINUE"]

\* defeat is looked for before victory
process_turn_results_defeat_first(s) ==
  LET after == move_enemies_and_monsters(s).state
  IN [state |-> after,
      events |-> <<"move_enemies_and_monsters">>,
      raised |-> after.total_treasures = 0,
      outcome |-> IF after.lives <= 0 THEN "DEFEAT"
                  ELSE IF after.victory THEN "VICTORY"
                  ELSE "CONTINUE"]

\* PirateGame._process_turn_results: the pursuit phase, the results of the
\* turn (raised: the percentage of treasures divides by total_treasures),
\* then the outcome of the turn
process_turn_results(s) ==
  LET after == move_enemies_and_monsters(s).state
  IN [state |-> after,
      events |-> <<"move_enemies_and_monsters">>,
      raised |-> after.total_treasures = 0,
      outcome |-> IF after.victory THEN "VICTORY"
                  ELSE IF after.lives <= 0 THEN "DEFEAT"
                  ELSE "CONTINUE"]

(* ------------------------------------------------------------------ state *)
VARIABLES
  game_map,             \* GameState.game_map: grid, width, height
  ship_position,
  treasures_collected,
  lives,
  cannonballs,
  score,
  enemies_defeated,
  monsters_defeated,
  turn_count,
  game_over,
  victory,
  total_treasures,
  ret                   \* the last command issued and what it returned

fields == <<game_map, ship_position, treasures_collected, lives, cannonballs,
            score, enemies_defeated, monsters_defeated, turn_count, game_over,
            victory, total_treasures>>

vars == <<game_map, ship_position, treasures_collected, lives, cannonballs,
          score, enemies_defeated, monsters_defeated, turn_count, game_over,
          victory, total_treasures, ret>>

\* the GameState object as the methods see it
Self ==
  [game_map |-> game_map,
   ship_position |-> ship_position,
   treasures_collected |-> treasures_collected,
   lives |-> lives,
   cannonballs |-> cannonballs,
   score |-> score,
   enemies_defeated |-> enemies_defeated,
   monsters_defeated |-> monsters_defeated,
   turn_count |-> turn_count,
   game_over |-> game_over,
   victory |-> victory,
   total_treasures |-> total_treasures]

\* the fields after a method has run
Becomes(s) ==
  /\ game_map' = s.game_map
  /\ ship_position' = s.ship_position
  /\ treasures_collected' = s.treasures_collected
  /\ lives' = s.lives
  /\ cannonballs' = s.cannonballs
  /\ score' = s.score
  /\ enemies_defeated' = s.enemies_defeated
  /\ monsters_defeated' = s.monsters_defeated
  /\ turn_count' = s.turn_count
  /\ game_over' = s.game_over
  /\ victory' = s.victory
  /\ total_treasures' = s.total_treasures

(* ----------------------------------------------------------------- inputs *)
Directions ==
  {d \in [x : (0 - MaxStep)..MaxStep, y : (0 - MaxStep)..MaxStep] :
     Abs(d.x) + Abs(d.y) <= MaxStep}

Targets ==
  [x : (0 - TargetPad)..(game_map.width - 1 + TargetPad),
   y : (0 - TargetPad)..(game_map.height - 1 + TargetPad)]

\* values of random.random(), in hundredths, on both sides of every table entry
Rolls == {0, 25, 26, 50, 51, 75, 76, 90, 91, 95, 96, 99}

\* random.random() is called only for a shot at an Enemy or Monster cell
RollsAt(target_pos) ==
  IF get_cell(game_map, target_pos) \in {ENEMY, MONSTER} THEN Rolls ELSE {0}

\* radius arguments of scan_surroundings: small ones and the default
Radii == (0..MaxRadius) \cup {5}

\* the movement commands the captain's answer can hold
Commands == [miles : 1..3, letter : {"N", "E", "S", "W"}]

\* what the line-of-sight filter may report as blocked: nothing (filter off)
\* or every cell that stands behind land
Blockings == {{}, behind_land(game_map, ship_position)}

(* ---------------------------------------------------------------- actions *)
\* the fields after GameState(map_file) on one of the given layouts
InitFrom(layouts) ==
  \E layout \in layouts :
    LET s == GameState_init(layout)
    IN /\ game_map = s.game_map
       /\ ship_position = s.ship_position
       /\ treasures_collected = s.treasures_collected
       /\ lives = s.lives
       /\ cannonballs = s.cannonballs
       /\ score = s.score
       /\ enemies_defeated = s.enemies_defeated
       /\ monsters_defeated = s.monsters_defeated
       /\ turn_count = s.turn_count
       /\ game_over = s.game_over
       /\ victory = s.victory
       /\ total_treasures = s.total_treasures
       /\ ret = [op |-> "init"]

Init == InitFrom(Layouts)

\* a refused move is always possible; a successful one while turns remain
MoveShip ==
  \E direction \in Directions :
    LET r == move_ship(Self, direction)
       IN /\ r.state.turn_count <= MaxTurns
          /\ Becomes(r.state)
          /\ ret' = [op |-> "move_ship", raised |-> r.raised,
                     old_position |->
                       IF r.success THEN r.move_results.old_position
                       ELSE r.state.ship_position,
                     success |-> r.success, message |-> r.message.kind,
                     treasures_collected |->
                       IF r.success THEN r.move_results.treasures_collected ELSE 0,
                     damage_taken |->
                       IF r.success THEN r.move_results.damage_taken ELSE 0]

FireCannon ==
  \E target_pos \in Targets : \E roll \in RollsAt(target_pos) :
    LET r == fire_cannon(Self, target_pos, roll)
    IN /\ Becomes(r.state)
       /\ ret' = [op |-> "fire_cannon", success |-> r.success,
                  message |-> r.message.kind]

ToolFireCannon ==
  \E target_pos \in Targets : \E roll \in RollsAt(target_pos) :
    LET r == CannoneerTool_fire_cannon(Self, target_pos.x, target_pos.y, roll)
    IN /\ Becomes(r.state)
       /\ ret' = [op |-> "CannoneerTool.fire_cannon",
                  success |-> r.result.success,
                  message |-> r.result.message.kind]

AdvanceHostiles ==
  LET r == move_enemies_and_monsters(Self)
  IN /\ Becomes(r.state)
     /\ ret' = [op |-> "move_enemies_and_monsters", movements |-> r.movements]

\* the commands of the game state
Next ==
  \/ MoveShip
  \/ FireCannon
  \/ AdvanceHostiles

Spec == Init /\ [][Next]_vars

\* the same game with the cannon fired through the cannoneer's tool
ToolNext ==
  \/ MoveShip
  \/ ToolFireCannon
  \/ AdvanceHostiles

ToolSpec == Init /\ [][ToolNext]_vars

\* the queries: each returns its answer and leaves the fields as the method
\* left them
GetStatus ==
  LET r == get_status(Self)
  IN /\ Becomes(r.state)
     /\ ret' = [op |-> "get_status", answer |-> r.answer]

ScanSurroundings ==
  \E radius \in Radii :
    \E blocked \in Blockings :
      LET r == scan_surroundings(Self, radius, blocked)
      IN /\ Becomes(r.state)
         /\ ret' = [op |-> "scan_surroundings", radius |-> radius,
                    blocked |-> blocked, answer |-> r.answer]

GetTargetsInRange ==
  LET r == get_targets_in_range(Self)
  IN /\ Becomes(r.state)
     /\ ret' = [op |-> "get_targets_in_range", answer |-> r.answer]

GetPossibleMoves ==
  LET r == get_possible_moves(Self)
  IN /\ Becomes(r.state)
     /\ ret' = [op |-> "get_possible_moves", answer |-> r.answer]

\* commands with queries between them
QueryNext ==
  \/ MoveShip
  \/ FireCannon
  \/ AdvanceHostiles
  \/ GetStatus
  \/ ScanSurroundings
  \/ GetTargetsInRange
  \/ GetPossibleMoves

QueryInit == InitFrom(QueryLayouts)

QuerySpec == QueryInit /\ [][QueryNext]_vars

\* gunnery on the strait
GunneryInit == InitFrom(GunneryLayouts)

GunnerySpec == GunneryInit /\ [][Next]_vars

\* sailing and pursuit without the cannon
PursuitInit == InitFrom(PursuitLayouts)

PursuitNext ==
  \/ MoveShip
  \/ AdvanceHostiles

PursuitSpec == PursuitInit /\ [][PursuitNext]_vars

\* close quarters: moves, shots and pursuit phases at arm's length
SkirmishInit == InitFrom(SkirmishLayouts)

SkirmishSpec == SkirmishInit /\ [][Next]_vars

\* the ship boarded from all sides, without the cannon
BoardingInit == InitFrom(BoardingLayouts)

BoardingSpec == BoardingInit /\ [][PursuitNext]_vars

\* ---- construction.  Before GameState(map_path) has run there is no object:
\* every field is None and ret holds the layout the file contains.
LayoutRows == UNION {[1..n -> {OWNSHIP, WATER, ENEMY}] : n \in 0..MaxCols}

LayoutFiles == UNION {[1..n -> LayoutRows] : n \in 0..MaxRows}

ConstructionInit ==
  /\ game_map = None
  /\ ship_position = None
  /\ treasures_collected = None
  /\ lives = None
  /\ cannonballs = None
  /\ score = None
  /\ enemies_defeated = None
  /\ monsters_defeated = None
  /\ turn_count = None
  /\ game_over = None
  /\ victory = None
  /\ total_treasures = None
  /\ \E layout \in LayoutFiles : ret = [op |-> "layout", layout |-> layout]

Construct ==
  /\ ret.op = "layout"
  /\ LET c == GameState_construct(ret.layout)
     IN /\ IF c.raised = None THEN Becomes(c.state) ELSE UNCHANGED fields
        /\ ret' = [op |-> "GameState", layout |-> ret.layout,
                   raised |-> c.raised]

\* there is a game state to call
Constructed ==
  IF ret.op = "layout" THEN FALSE
  ELSE IF ret.op = "GameState" THEN ret.raised = None
  ELSE TRUE

\* the game played on whatever the constructor accepted
SailOn == Constructed /\ MoveShip

PursuitPhase == Constructed /\ AdvanceHostiles

ConstructionNext ==
  \/ Construct
  \/ SailOn
  \/ PursuitPhase

ConstructionSpec == ConstructionInit /\ [][ConstructionNext]_vars

\* sailing and pursuit with the crew's reports asked in between
SurveyInit == InitFrom(SurveyLayouts)

SurveyNext ==
  \/ MoveShip
  \/ AdvanceHostiles
  \/ GetStatus
  \/ ScanSurroundings
  \/ GetTargetsInRange
  \/ GetPossibleMoves

SurveySpec == SurveyInit /\ [][SurveyNext]_vars

\* ---- the game loop of pirate_game.py, console mode.  ret holds where the
\* turn stands (at), the number of the turn, the commands the turn has
\* issued so far (log) and, once the turn is over, whether it ran to its end
\* (completed) and its outcome; move_result is what the captain's move of the
\* turn returned; stop_requested is the flag game_stop_requested of the web
\* interface, which stays False in console mode.
LoopTurn == IF ret.op = "init" THEN 0 ELSE ret.turn

StopRequested == IF ret.op = "init" THEN FALSE ELSE ret.stop_requested

BetweenTurns == IF ret.op = "init" THEN TRUE ELSE ret.at = "idle"

\* after a fault the player goes on and the turn is run again
AfterFault_turn_retried(answer) ==
  [op |-> "game_loop", at |-> IF answer THEN "idle" ELSE "ended",
   turn |-> IF answer THEN ret.turn - 1 ELSE ret.turn,
   log |-> ret.log, move_result |-> ret.move_result,
   completed |-> FALSE, outcome |-> IF answer THEN "CONTINUE" ELSE "STOP",
   stop_requested |-> ret.stop_requested]

\* what _ask_continue returns after a fault: the player's answer
AfterFault(answer) ==
  [op |-> "game_loop", at |-> IF answer THEN "idle" ELSE "ended",
   turn |-> ret.turn, log |-> ret.log, move_result |-> ret.move_result,
   completed |-> FALSE, outcome |-> IF answer THEN "CONTINUE" ELSE "STOP",
   stop_requested |-> ret.stop_requested]

\* the loop head and the start of _execute_turn: the turn counter of the
\* game state is set to the loop's, overlaps left from before are resolved
BeginTurnBelow(limit) ==
  /\ BetweenTurns
  /\ ~game_over
  /\ LoopTurn < max_turns
  /\ LoopTurn < limit
  /\ ~StopRequested
  /\ LET synced == [Self EXCEPT !.turn_count = LoopTurn + 1]
     IN Becomes(check_and_handle_position_overlaps(synced).state)
  /\ ret' = [op |-> "game_loop", at |-> "navigator", turn |-> LoopTurn + 1,
             log |-> << >>,
             move_result |-> [success |-> FALSE, treasures_gained |-> 0,
                              lives_lost |-> 0],
             completed |-> FALSE, outcome |-> None,
             stop_requested |-> FALSE]

BeginTurn == BeginTurnBelow(MaxLoopTurns)

\* run_turn builds the first status report, then the navigator node scans
NavigatorAgent ==
  /\ ret.op = "game_loop" /\ ret.at = "navigator"
  /\ \E blocked \in Blockings :
       \E status \in {get_game_status(Self, blocked)} :
         \E scan_result \in {scan_surroundings(status.state, 5, blocked)} :
           Becomes(scan_result.state)
  /\ ret' = [ret EXCEPT !.at = "cannoneer"]

CannoneerAgent ==
  /\ ret.op = "game_loop" /\ ret.at = "cannoneer"
  /\ \E fire \in IF StopRequested THEN {FALSE} ELSE BOOLEAN :
       \E rolls \in [1..Len(get_targets_in_range(Self).answer) -> {0, 99}] :
         LET r == cannoneer_agent(Self, fire, rolls)
         IN /\ Becomes(r.state)
            /\ ret' = [ret EXCEPT !.at = "captain", !.log = @ \o r.events]

CaptainAgent ==
  /\ ret.op = "game_loop" /\ ret.at = "captain"
  /\ \E matches \in IF StopRequested THEN {<< >>}
                    ELSE {<< >>} \cup {<<c>> : c \in Commands} :
       LET r == captain_agent(Self, matches)
       IN /\ Becomes(r.tool.state)
          /\ ret' = [ret EXCEPT
                       !.at = "results",
                       !.log = IF r.moved THEN Append(@, "move_ship") ELSE @,
                       !.move_result =
                         IF r.tool.result.success
                         THEN [success |-> TRUE,
                               treasures_gained |-> r.tool.result.treasures_gained,
                               lives_lost |-> r.tool.result.lives_lost]
                         ELSE @]

\* a call of the language model fails inside a node: _execute_turn catches
\* the exception and asks whether to go on
AgentFails ==
  /\ ret.op = "game_loop" /\ ret.at \in {"navigator", "cannoneer", "captain"}
  /\ ~StopRequested
  /\ UNCHANGED fields
  /\ \E answer \in BOOLEAN : ret' = AfterFault(answer)

ProcessTurnResults ==
  /\ ret.op = "game_loop" /\ ret.at = "results"
  /\ LET r == process_turn_results(Self)
     IN /\ Becomes(r.state)
        /\ IF r.raised
           THEN \E answer \in BOOLEAN :
                  ret' = [AfterFault(answer) EXCEPT !.log = @ \o r.events]
           ELSE ret' = [op |-> "game_loop",
                        at |-> IF r.outcome = "CONTINUE" THEN "idle" ELSE "ended",
                        turn |-> ret.turn, log |-> ret.log \o r.events,
                        move_result |-> ret.move_result,
                        completed |-> TRUE, outcome |-> r.outcome,
                        stop_requested |-> ret.stop_requested]

LoopInit == InitFrom(LoopLayouts)

LoopNext ==
  \/ BeginTurn
  \/ NavigatorAgent
  \/ CannoneerAgent
  \/ CaptainAgent
  \/ AgentFails
  \/ ProcessTurnResults

LoopSpec == LoopInit /\ [][LoopNext]_vars

\* ---- continuous mode with the web interface: the whole voyage, up to
\* max_turns turns, with the stop button
\* a layout with the ship and one treasure
LayoutY == << <<OWNSHIP, TREASURE>> >>

VoyageLayouts == {LayoutY}

VoyageInit == InitFrom(VoyageLayouts)

\* the loop record while no turn is running
Ashore ==
  IF ret.op = "init"
  THEN [op |-> "game_loop", at |-> "idle", turn |-> 0, log |-> << >>,
        move_result |-> [success |-> FALSE, treasures_gained |-> 0,
                         lives_lost |-> 0],
        completed |-> FALSE, outcome |-> None, stop_requested |-> FALSE]
  ELSE ret

SetSail == BeginTurnBelow(max_turns)

\* POST /stop_game: the HTTP thread sets the flag, at any time while the loop
\* runs; nothing resets it
RequestStop ==
  /\ ~StopRequested
  /\ Ashore.at # "ended"
  /\ UNCHANGED fields
  /\ ret' = [Ashore EXCEPT !.stop_requested = TRUE]

\* run_turn finds the flag set and returns at once; _execute_turn returns
\* "STOP" and the loop breaks
RunTurnStopped ==
  /\ ret.op = "game_loop" /\ ret.at = "navigator"
  /\ StopRequested
  /\ UNCHANGED fields
  /\ ret' = [ret EXCEPT !.at = "ended", !.outcome = "STOP"]

\* the loop is left at its head: the while condition fails or the stop flag
\* is found set
LeaveLoop ==
  /\ BetweenTurns
  /\ game_over \/ LoopTurn >= max_turns \/ StopRequested
  /\ UNCHANGED fields
  /\ ret' = [Ashore EXCEPT !.at = "ended"]

\* the steps of the game-loop thread
VoyageLoop ==
  \/ SetSail
  \/ RunTurnStopped
  \/ NavigatorAgent
  \/ CannoneerAgent
  \/ CaptainAgent
  \/ AgentFails
  \/ ProcessTurnResults
  \/ LeaveLoop

VoyageNext ==
  \/ VoyageLoop
  \/ RequestStop

\* the loop thread keeps running: a call of the language model returns or
\* fails, and the player answers the question after a fault
VoyageSpec == VoyageInit /\ [][VoyageNext]_vars /\ WF_vars(VoyageLoop)

\* ---- step mode: the game loop of _run_step_mode and the HTTP thread of the
\* web interface, which handles one request at a time.  ret holds the two
\* flags they share (step_ready, last_step_result), where the loop stands
\* (at, turn, turn_in_progress, node: the next node of the graph stream) and
\* the request the HTTP thread is handling (handler, 0 when it is idle).
\* Requests are numbered in the order they arrive, /init_step_game being
\* number 0; ready_by is the request that last set step_ready, triggered_by
\* the request whose signal the loop is acting on, and a step result carries
\* the request that triggered it (by); answered is the last response sent.
StepInit ==
  /\ InitFrom(VoyageLayouts)
  /\ ret.op = "init"

\* POST /init_step_game has been handled and play_game enters _run_step_mode
EnterStepMode ==
  /\ ret.op = "init"
  /\ UNCHANGED fields
  /\ ret' = [op |-> "step_mode", step_ready |-> TRUE, ready_by |-> 0,
             last_step_result |-> [status |-> "None", by |-> 0],
             at |-> "wait", turn |-> 0, turn_in_progress |-> FALSE,
             node |-> "navigator", triggered_by |-> 0,
             handler |-> 0, requests |-> 0,
             answered |-> [request |-> 0, status |-> "None", by |-> 0]]

\* POST /step_game arrives: the handler sets step_ready and starts to wait
\* for a result
StepRequest ==
  /\ ret.op = "step_mode"
  /\ ret.handler = 0
  /\ ret.requests < MaxRequests
  /\ UNCHANGED fields
  /\ ret' = [ret EXCEPT !.requests = @ + 1,
                        !.step_ready = TRUE,
                        !.ready_by = ret.requests + 1,
                        !.handler = ret.requests + 1]

\* the handler finds a result stored, clears it and sends it
HandlerAnswers ==
  /\ ret.op = "step_mode"
  /\ ret.handler # 0
  /\ ret.last_step_result.status # "None"
  /\ UNCHANGED fields
  /\ ret' = [ret EXCEPT !.answered = [request |-> ret.handler,
                                      status |-> ret.last_step_result.status,
                                      by |-> ret.last_step_result.by],
                        !.last_step_result = [status |-> "None", by |-> 0],
                        !.handler = 0]

\* two seconds have passed without a result: the handler answers "timeout"
HandlerTimesOut ==
  /\ ret.op = "step_mode"
  /\ ret.handler # 0
  /\ ret.last_step_result.status = "None"
  /\ UNCHANGED fields
  /\ ret' = [ret EXCEPT !.answered = [request |-> ret.handler,
                                      status |-> "timeout", by |-> 0],
                        !.handler = 0]

\* the while condition of _run_step_mode
StepLoopRuns ==
  /\ ret.op = "step_mode"
  /\ ret.at = "wait"
  /\ ~game_over
  /\ ret.turn < max_turns

\* no turn in progress and the signal is seen: the turn is started
StartTurn ==
  /\ StepLoopRuns
  /\ ret.turn < MaxLoopTurns
  /\ ~ret.turn_in_progress
  /\ ret.step_ready
  /\ LET synced == [Self EXCEPT !.turn_count = ret.turn + 1]
     IN Becomes(check_and_handle_position_overlaps(synced).state)
  /\ ret' = [ret EXCEPT !.turn = @ + 1, !.turn_in_progress = TRUE,
                        !.node = "navigator", !.at = "starting",
                        !.triggered_by = ret.ready_by]

\* a turn in progress and the signal is seen: run_step is called
TakeStep ==
  /\ StepLoopRuns
  /\ ret.turn_in_progress
  /\ ret.step_ready
  /\ UNCHANGED fields
  /\ ret' = [ret EXCEPT !.at = "stepping", !.triggered_by = ret.ready_by]

\* the result of run_step is stored for the HTTP thread
Stored(status) ==
  [ret EXCEPT !.last_step_result = [status |-> status, by |-> ret.triggered_by],
              !.at = "resetting"]

\* run_step runs the next node of the stream and its result is stored
RunStep ==
  /\ ret.op = "step_mode" /\ ret.at = "stepping"
  /\ \/ /\ ret.node = "navigator"
        /\ \E blocked \in Blockings :
             \E scan_result \in {scan_surroundings(Self, 5, blocked)} :
               Becomes(scan_result.state)
        /\ ret' = [Stored("step_complete") EXCEPT !.node = "cannoneer"]
     \/ /\ ret.node = "cannoneer"
        /\ \E fire \in BOOLEAN :
             \E rolls \in [1..Len(get_targets_in_range(Self).answer) -> {0, 99}] :
               Becomes(cannoneer_agent(Self, fire, rolls).state)
        /\ ret' = [Stored("step_complete") EXCEPT !.node = "captain"]
     \/ /\ ret.node = "captain"
        /\ \E matches \in {<< >>} \cup {<<c>> : c \in Commands} :
             Becomes(captain_agent(Self, matches).tool.state)
        /\ ret' = [Stored("step_complete") EXCEPT !.node = "done"]

\* the stream is exhausted: run_step answers "complete", the results of the
\* turn are processed and a "turn_complete" result replaces the step's; an
\* outcome other than CONTINUE, or a fault, leaves the loop
FinishTurn ==
  /\ ret.op = "step_mode" /\ ret.at = "stepping"
  /\ ret.node = "done"
  /\ \E r \in {process_turn_results(Self)} :
       /\ Becomes(r.state)
       /\ ret' = IF r.raised
                 THEN [Stored("complete") EXCEPT !.at = "ended"]
                 ELSE [Stored("turn_complete") EXCEPT
                         !.turn_in_progress = FALSE,
                         !.at = IF r.outcome = "CONTINUE"
                                THEN "resetting" ELSE "ended"]

\* the node raises: run_step answers "error" and the loop breaks
StepFails ==
  /\ ret.op = "step_mode" /\ ret.at = "stepping"
  /\ ret.node # "done"
  /\ UNCHANGED fields
  /\ ret' = [Stored("error") EXCEPT !.at = "ended"]

\* "self.gui.step_ready = False  # Reset step signal", after the start of a
\* turn and after a step
ResetStepSignal ==
  /\ ret.op = "step_mode" /\ ret.at \in {"starting", "resetting"}
  /\ UNCHANGED fields
  /\ ret' = [ret EXCEPT !.step_ready = FALSE, !.at = "wait"]

\* the while condition fails
LeaveStepLoop ==
  /\ ret.op = "step_mode" /\ ret.at = "wait"
  /\ game_over \/ ret.turn >= max_turns
  /\ UNCHANGED fields
  /\ ret' = [ret EXCEPT !.at = "ended"]

StepNext ==
  \/ EnterStepMode
  \/ StepRequest
  \/ HandlerAnswers
  \/ HandlerTimesOut
  \/ StartTurn
  \/ TakeStep
  \/ RunStep
  \/ FinishTurn
  \/ StepFails
  \/ ResetStepSignal
  \/ LeaveStepLoop

StepSpec == StepInit /\ [][StepNext]_vars

(* ================================================================ claims *)
\* The cells move_ship(direction) has to cross from start, in the order the
\* claims give: every horizontal step first, then every vertical step.
WalkCells(start, d) ==
  [i \in 1..(Abs(d.x) + Abs(d.y)) |->
     IF i <= Abs(d.x)
     THEN Position(start.x + i * Sign(d.x), start.y)
     ELSE Position(start.x + d.x, start.y + (i - Abs(d.x)) * Sign(d.y))]

OnMap(p) ==
  /\ p.x \in 0..(game_map.width - 1)
  /\ p.y \in 0..(game_map.height - 1)

CellAt(p) == game_map.grid[p.y + 1][p.x + 1]

IllegalMove(d) ==
  \/ Abs(d.x) + Abs(d.y) > 3
  \/ \E i \in DOMAIN WalkCells(ship_position, d) :
       LET p == WalkCells(ship_position, d)[i]
       IN ~OnMap(p) \/ CellAt(p) = LAND

\* C1: every illegal move (more than 3 tiles, or a Land or off-map cell on the
\* horizontal-then-vertical path) returns failure with a reason and leaves
\* every field of the game state, the grid included, exactly as it was.
C1_IllegalMoveMutatesNothing ==
  \A d \in Directions :
    IllegalMove(d) =>
      LET r == move_ship(Self, d)
      IN /\ r.success = FALSE
         /\ r.raised = FALSE
         /\ r.message.kind \in {"distance", "blocked"}
         /\ r.move_results.reason = "illegal_move"
         /\ r.state = Self

\* an illegal move has just been refused because of a cell on its path
C1_Witness ==
  /\ ret.op = "move_ship"
  /\ ret.success = FALSE
  /\ ret.message = "blocked"
  /\ \E d \in Directions : IllegalMove(d) /\ Abs(d.x) + Abs(d.y) <= 3

SingleAxis(d) == (d.x = 0) # (d.y = 0)

ClearWater(d) ==
  \A i \in DOMAIN WalkCells(ship_position, d) :
    LET p == WalkCells(ship_position, d)[i]
    IN OnMap(p) /\ CellAt(p) = WATER

\* C2: a single-axis move of 1, 2 or 3 tiles over in-bounds Water succeeds,
\* adds exactly 1 to the turn counter, puts the ship at start + displacement
\* and leaves lives, cannonballs, score and the grid unchanged.
C2_ClearWaterMoveSucceeds ==
  \A d \in Directions :
    (SingleAxis(d) /\ Abs(d.x) + Abs(d.y) \in 1..3 /\ ClearWater(d)) =>
      LET r == move_ship(Self, d)
      IN /\ r.success = TRUE
         /\ r.state.turn_count = turn_count + 1
         /\ r.state.ship_position = Position(ship_position.x + d.x,
                                             ship_position.y + d.y)
         /\ r.state.lives = lives
         /\ r.state.cannonballs = cannonballs
         /\ r.state.score = score
         /\ r.state.game_map = game_map

\* the ship has just sailed three tiles along a row of open water
C2_Witness ==
  /\ ret.op = "move_ship"
  /\ ret.success = TRUE
  /\ ret.treasures_collected = 0
  /\ ret.damage_taken = 0
  /\ ret.old_position.y = ship_position.y
  /\ Abs(ship_position.x - ret.old_position.x) = 3

LandOnPath(d) ==
  {i \in DOMAIN WalkCells(ship_position, d) :
     LET p == WalkCells(ship_position, d)[i] IN OnMap(p) /\ CellAt(p) = LAND}

FirstLandIndex(d) ==
  CHOOSE i \in LandOnPath(d) : \A j \in LandOnPath(d) : i <= j

FirstLand(d) == WalkCells(ship_position, d)[FirstLandIndex(d)]

CellTypes == {WATER, LAND, TREASURE, ENEMY, MONSTER}

\* C3: when a move of Manhattan length <= 3 has Land on its path, the failure
\* reason names the first Land cell of the walk that takes every horizontal
\* step before any vertical step, and the answer does not depend on what the
\* cells after that one hold.
C3_FirstLandReported ==
  \A d \in Directions :
    (Abs(d.x) + Abs(d.y) <= 3 /\ LandOnPath(d) # {}) =>
      LET r == move_ship(Self, d)
          first == FirstLand(d)
          target == Position(ship_position.x + d.x, ship_position.y + d.y)
      IN /\ r.success = FALSE
         /\ r.message = [kind |-> "blocked", cell |-> LAND,
                         x |-> first.x, y |-> first.y]
         /\ r.state.ship_position = ship_position
         /\ r.state.turn_count = turn_count
         /\ \A j \in DOMAIN WalkCells(ship_position, d), c \in CellTypes :
              LET p == WalkCells(ship_position, d)[j]
              IN j > FirstLandIndex(d) =>
                   is_path_clear(set_cell(game_map, p, c), ship_position, target)
                     = is_path_clear(game_map, ship_position, target)

\* a move has just been refused where some path of the ship crosses two Land
\* cells one after the other
C3_Witness ==
  /\ ret.op = "move_ship"
  /\ ret.success = FALSE
  /\ ret.message = "blocked"
  /\ \E d \in Directions :
       Abs(d.x) + Abs(d.y) <= 3 /\ Cardinality(LandOnPath(d)) >= 2

TreasureOnPath(d) ==
  {i \in DOMAIN WalkCells(ship_position, d) :
     CellAt(WalkCells(ship_position, d)[i]) = TREASURE}

\* C4: a successful move adds, for each Treasure cell on its path, exactly 1
\* to treasures_collected, 2 to cannonballs and 10 to score, turns the cell
\* into Water and reports the number of such cells as the treasures gained;
\* no more treasures are ever collected than the layout held.
C4_TreasureCollectedOnce ==
  /\ treasures_collected <= total_treasures
  /\ \A d \in Directions :
       ~IllegalMove(d) =>
         LET r == move_ship(Self, d)
             n == Cardinality(TreasureOnPath(d))
         IN /\ r.success = TRUE
            /\ r.state.treasures_collected = treasures_collected + n
            /\ r.state.cannonballs = cannonballs + 2 * n
            /\ r.state.score = score + 10 * n
            /\ r.move_results.treasures_collected = n
            /\ \A i \in TreasureOnPath(d) :
                 get_cell(r.state.game_map, WalkCells(ship_position, d)[i]) = WATER

\* one move has just collected two treasures
C4_Witness ==
  /\ ret.op = "move_ship"
  /\ ret.success = TRUE
  /\ ret.treasures_collected = 2
  /\ treasures_collected = 2

\* C5 as stated: in every reachable state, for every layout, victory is true
\* exactly when treasures_collected equals the count recorded at load.
C5_Original ==
  victory <=> (treasures_collected = total_treasures)

\* C5 as amended: victory is true exactly when treasures_collected equals the
\* count recorded at load and either that count is positive or a move has
\* succeeded; victory is never true while treasures are still missing.
C5_VictoryIffAllCollected ==
  /\ victory <=> /\ treasures_collected = total_treasures
                 /\ (total_treasures > 0 \/ turn_count > 0)
  /\ victory => ~(treasures_collected < total_treasures)

\* the move that collected the last treasure of a layout has just ended
C5_Witness ==
  /\ ret.op = "move_ship"
  /\ ret.treasures_collected > 0
  /\ total_treasures > 0
  /\ treasures_collected = total_treasures
  /\ victory

\* C6: in every reachable state game_over is true exactly when victory is
\* true or lives <= 0, whichever command produced the state.
C6_GameOverIffVictoryOrSunk ==
  game_over <=> (victory \/ lives <= 0)

\* the hostile phase has just taken the last life of a ship that has not won
C6_Witness ==
  /\ ret.op = "move_enemies_and_monsters"
  /\ lives <= 0
  /\ ~victory
  /\ game_over

ManhattanToShip(p) ==
  Abs(p.x - ship_position.x) + Abs(p.y - ship_position.y)

\* C7: fire_cannon takes exactly 1 cannonball when cannonballs > 0 and the
\* target is within Manhattan distance 5 (hit, miss or non-hostile cell
\* alike), takes none when the target is farther or no cannonball is left,
\* and cannonballs is never negative.
C7_AmmunitionAccounting ==
  /\ cannonballs >= 0
  /\ \A t \in Targets : \A roll \in RollsAt(t) :
       LET r == fire_cannon(Self, t, roll)
       IN /\ (cannonballs > 0 /\ ManhattanToShip(t) <= 5) =>
               /\ r.state.cannonballs = cannonballs - 1
               /\ r.message.kind \in {"hit", "miss", "empty_water"}
          /\ (cannonballs = 0 \/ ManhattanToShip(t) > 5) =>
               r.state.cannonballs = cannonballs

\* the last cannonball has just been fired
C7_Witness ==
  /\ ret.op = "fire_cannon"
  /\ ret.message \in {"hit", "miss", "empty_water"}
  /\ cannonballs = 0

Rejected(t) == cannonballs <= 0 \/ ManhattanToShip(t) > 5

\* what C8 says of one state: a rejected shot changes nothing, and with no
\* cannonball left a shot at a target in range is refused for that reason
C8_RejectedShot ==
  \A t \in Targets : \A roll \in RollsAt(t) :
    LET r == fire_cannon(Self, t, roll)
        tool == CannoneerTool_fire_cannon(Self, t.x, t.y, roll)
    IN /\ Rejected(t) =>
            /\ r.success = FALSE
            /\ r.message.kind \in {"no_cannonballs", "too_far"}
            /\ r.state = Self
            /\ tool.result.success = FALSE
            /\ tool.state = Self
       /\ (cannonballs = 0 /\ ManhattanToShip(t) <= 5) =>
            /\ r.message.kind = "no_cannonballs"
            /\ tool.result.message.kind = "no_cannonballs"

\* C8: a fire_cannon call that is rejected (no cannonball, or Manhattan
\* distance > 5) leaves the whole game state unchanged; once cannonballs is 0
\* every shot at a target in range fails with the no-ammunition reason, and
\* cannonballs stays 0 until a treasure is collected.
C8_RejectedShotChangesNothing ==
  /\ []C8_RejectedShot
  /\ [][(cannonballs = 0 /\ cannonballs' # 0) =>
          treasures_collected' > treasures_collected]_vars

\* a shot has just been refused for want of ammunition
C8_Witness ==
  /\ ret.op = "fire_cannon"
  /\ ret.success = FALSE
  /\ ret.message = "no_cannonballs"
  /\ cannonballs = 0

\* C9: an accepted shot that hits an Enemy or Monster cell returns success,
\* turns the cell into Water and either adds 1 to enemies_defeated and 10 to
\* score (Enemy) or 1 to monsters_defeated and 50 to score (Monster); lives,
\* ship position, treasures_collected and the turn counter are unchanged.
C9_HitDestroysTarget ==
  \A t \in Targets : \A roll \in RollsAt(t) :
    LET r == fire_cannon(Self, t, roll)
        cell == get_cell(game_map, t)
    IN (/\ ~Rejected(t)
        /\ cell \in {ENEMY, MONSTER}
        /\ (r.success \/ r.message.kind = "hit")) =>
         /\ r.success = TRUE
         /\ get_cell(r.state.game_map, t) = WATER
         /\ cell = ENEMY =>
              /\ r.state.enemies_defeated = enemies_defeated + 1
              /\ r.state.monsters_defeated = monsters_defeated
              /\ r.state.score = score + 10
         /\ cell = MONSTER =>
              /\ r.state.monsters_defeated = monsters_defeated + 1
              /\ r.state.enemies_defeated = enemies_defeated
              /\ r.state.score = score + 50
         /\ r.state.lives = lives
         /\ r.state.ship_position = ship_position
         /\ r.state.treasures_collected = treasures_collected
         /\ r.state.turn_count = turn_count

\* a Monster has just been shot
C9_Witness ==
  /\ ret.op = "fire_cannon"
  /\ ret.success = TRUE
  /\ ret.message = "hit"
  /\ monsters_defeated = 1
  /\ score >= 50

\* C10: an accepted shot that misses a hostile, or that is aimed at a cell
\* that is not hostile (Water, Land, Treasure, the ship's cell, a position
\* off the map), returns failure and changes cannonballs only.
C10_MissChangesOnlyAmmunition ==
  \A t \in Targets : \A roll \in RollsAt(t) :
    LET r == fire_cannon(Self, t, roll)
        cell == get_cell(game_map, t)
    IN (/\ ~Rejected(t)
        /\ (cell \notin {ENEMY, MONSTER} \/ r.message.kind = "miss")) =>
         /\ r.success = FALSE
         /\ r.state = [Self EXCEPT !.cannonballs = @ - 1]

\* a shot has just been spent on a cell that is not hostile while a Treasure
\* and a Land cell lie on the map
C10_Witness ==
  /\ ret.op = "fire_cannon"
  /\ ret.success = FALSE
  /\ ret.message = "empty_water"
  /\ \E t \in Targets : get_cell(game_map, t) = TREASURE
  /\ \E t \in Targets : get_cell(game_map, t) = LAND

\* the hit probability the claims give for a shot at Manhattan distance d, in
\* hundredths
C11_Probability(d) ==
  CASE d = 1 -> 95
    [] d = 2 -> 90
    [] d = 3 -> 75
    [] d = 4 -> 50
    [] d = 5 -> 25
    [] OTHER -> 25

\* C11: an accepted shot at a hostile at Manhattan distance d hits if and only
\* if the value drawn is <= 0.95, 0.90, 0.75, 0.50, 0.25 for d = 1..5 (0.25
\* for any other d), a miss reports that probability, and the hit_chance
\* get_targets_in_range lists for the same hostile is the same value.
C11_HitProbabilityTable ==
  /\ \A d \in 0..(5 + MaxStep) : hit_chance(d) = C11_Probability(d)
  /\ \A t \in Targets : \A roll \in Rolls :
       (/\ ~Rejected(t)
        /\ get_cell(game_map, t) \in {ENEMY, MONSTER}) =>
         LET r == fire_cannon(Self, t, roll)
             p == C11_Probability(ManhattanToShip(t))
         IN /\ r.success <=> (roll <= p)
            /\ r.message.kind = (IF roll <= p THEN "hit" ELSE "miss")
            /\ r.message.kind = "miss" => r.message.hit_chance = p
            /\ \E i \in DOMAIN get_targets_in_range(Self).answer :
                 LET e == get_targets_in_range(Self).answer[i]
                 IN /\ e._position = t
                    /\ e.distance = ManhattanToShip(t)
                    /\ e.hit_chance = p
  /\ \A i \in DOMAIN get_targets_in_range(Self).answer :
       LET e == get_targets_in_range(Self).answer[i]
       IN e.hit_chance = C11_Probability(ManhattanToShip(e._position))

\* a shot at the hostile four cells away has just missed
C11_Witness ==
  /\ ret.op = "fire_cannon"
  /\ ret.message = "miss"
  /\ \E i \in DOMAIN get_targets_in_range(Self).answer :
       /\ get_targets_in_range(Self).answer[i].distance = 4
       /\ get_targets_in_range(Self).answer[i].hit_chance = 50

\* the steps of the walk to ship_position + d that are Enemy or Monster cells
HostileSteps(d) ==
  {i \in DOMAIN WalkCells(ship_position, d) :
     CellAt(WalkCells(ship_position, d)[i]) \in {ENEMY, MONSTER}}

\* C12: on a successful move every Enemy or Monster cell on the path costs
\* exactly one life and becomes Water whatever lives is left, game_over is
\* set when lives reaches 0, the ship ends on the target cell, and the
\* damage_taken the move reports is the number of hostile cells on the path.
C12_ContactDamage ==
  \A d \in Directions :
    ~IllegalMove(d) =>
      LET r == move_ship(Self, d)
          cells == WalkCells(ship_position, d)
          n == Cardinality(HostileSteps(d))
      IN /\ r.success = TRUE
         /\ r.state.lives = lives - n
         /\ \A i \in HostileSteps(d) :
              get_cell(r.state.game_map, cells[i]) = WATER
         /\ (n > 0 /\ r.state.lives <= 0) => r.state.game_over = TRUE
         /\ r.state.ship_position =
              Position(ship_position.x + d.x, ship_position.y + d.y)
         /\ r.move_results.damage_taken = n

\* a move across three hostile cells has just taken the last life
C12_Witness ==
  /\ ret.op = "move_ship"
  /\ ret.success = TRUE
  /\ ret.damage_taken = 3
  /\ lives = 0
  /\ game_over = TRUE
  /\ ship_position # ret.old_position
  /\ \A p \in {Position(1, 0), Position(2, 0), Position(3, 0)} :
       get_cell(game_map, p) = WATER

\* The pursuit phase taken apart: the hostiles of the grid at the start of the
\* phase in the order they are processed, and the game state and log once the
\* first k of them have been processed.
PhaseEntities == entities_to_move(game_map)

AfterEntity(k) == EntityLoop(Self, SubSeq(PhaseEntities, 1, k), << >>)

ChebyshevToShip(p) ==
  Max(Abs(ship_position.x - p.x), Abs(ship_position.y - p.y))

\* the hostiles of the phase that are within pursuit range, by their index
InRange == {k \in DOMAIN PhaseEntities :
              ChebyshevToShip(PhaseEntities[k].position) <= 3}

\* the log entry hostile k of the phase produced (k in InRange)
EntryOf(k) == AfterEntity(k).movements[Len(AfterEntity(k).movements)]

TreasureSteps(d) ==
  {i \in DOMAIN WalkCells(ship_position, d) :
     CellAt(WalkCells(ship_position, d)[i]) = TREASURE}

\* C13: a collision has the same effect whichever side causes it.  When the
\* ship steps onto hostiles during a move, and when the step a hostile
\* chooses during the pursuit phase is the ship's cell, each collision costs
\* exactly one life, the cell the hostile occupied becomes Water, no score is
\* awarded (the score moves only by the treasures of the path), no kill
\* counter changes, and the ship's cell holds no hostile afterwards.
C13_CollisionSymmetry ==
  /\ \A d \in Directions :
       ~IllegalMove(d) =>
         LET r == move_ship(Self, d)
             cells == WalkCells(ship_position, d)
         IN /\ r.state.lives = lives - Cardinality(HostileSteps(d))
            /\ \A i \in HostileSteps(d) :
                 get_cell(r.state.game_map, cells[i]) = WATER
            /\ r.state.score = score + 10 * Cardinality(TreasureSteps(d))
            /\ r.state.enemies_defeated = enemies_defeated
            /\ r.state.monsters_defeated = monsters_defeated
            /\ get_cell(r.state.game_map, r.state.ship_position)
                 \notin {ENEMY, MONSTER}
  /\ \A k \in InRange :
       EntryOf(k).kind = "collision" =>
         LET before == AfterEntity(k - 1).state
             after == AfterEntity(k).state
         IN /\ EntryOf(k).to = ship_position
            /\ after.lives = before.lives - 1
            /\ get_cell(after.game_map, PhaseEntities[k].position) = WATER
            /\ after.score = before.score
            /\ after.enemies_defeated = before.enemies_defeated
            /\ after.monsters_defeated = before.monsters_defeated
            /\ get_cell(after.game_map, after.ship_position)
                 \notin {ENEMY, MONSTER}
  /\ LET r == move_enemies_and_monsters(Self)
         collisions == {i \in DOMAIN r.movements :
                          r.movements[i].kind = "collision"}
     IN /\ r.state.lives = lives - Cardinality(collisions)
        /\ r.state.score = score
        /\ r.state.enemies_defeated = enemies_defeated
        /\ r.state.monsters_defeated = monsters_defeated
        /\ get_cell(r.state.game_map, r.state.ship_position)
             \notin {ENEMY, MONSTER}

\* a hostile has just run into the ship, and another one lies on the path of
\* a move the ship can make
C13_Witness ==
  /\ ret.op = "move_enemies_and_monsters"
  /\ \E i \in DOMAIN ret.movements : ret.movements[i].kind = "collision"
  /\ lives < 3
  /\ \E d \in Directions : ~IllegalMove(d) /\ HostileSteps(d) # {}

\* C14: in the pursuit phase a hostile whose Chebyshev distance to the ship
\* is > 3 at the start of the phase stays in its cell and has no entry in the
\* movement log, and the log holds exactly one entry (move, collision or
\* blocked) for each hostile whose distance is <= 3 at the start of the phase.
C14_PursuitRange ==
  LET r == move_enemies_and_monsters(Self)
      EntriesOf(k) == {i \in DOMAIN r.movements :
                         r.movements[i].from = PhaseEntities[k].position}
  IN /\ \A k \in DOMAIN PhaseEntities :
          IF ChebyshevToShip(PhaseEntities[k].position) > 3
          THEN /\ get_cell(r.state.game_map, PhaseEntities[k].position)
                    = PhaseEntities[k].type
               /\ EntriesOf(k) = {}
          ELSE /\ Cardinality(EntriesOf(k)) = 1
               /\ \A i \in EntriesOf(k) :
                    /\ r.movements[i].kind \in {"move", "collision", "blocked"}
                    /\ r.movements[i].entity_type
                         = EntityName(PhaseEntities[k].type)
     /\ Len(r.movements) = Cardinality(InRange)

\* the pursuit phase has just logged a hostile while another one, more than
\* three cells from the ship, is still where the layout put it
C14_Witness ==
  /\ ret.op = "move_enemies_and_monsters"
  /\ Len(ret.movements) = 1
  /\ \E k \in DOMAIN PhaseEntities :
       /\ ChebyshevToShip(PhaseEntities[k].position) > 3
       /\ PhaseEntities[k].position = Position(5, 0)
       /\ PhaseEntities[k].type = MONSTER

\* the candidate steps the claims give hostile k of the phase, in order: the
\* diagonal unit step toward the ship when both axes differ, then the
\* horizontal unit step, then the vertical unit step
C15_Candidates(k) ==
  LET pos == PhaseEntities[k].position
      sx == Sign(ship_position.x - pos.x)
      sy == Sign(ship_position.y - pos.y)
  IN (IF sx # 0 /\ sy # 0 THEN <<Position(pos.x + sx, pos.y + sy)>> ELSE << >>)
     \o (IF sx # 0 THEN <<Position(pos.x + sx, pos.y)>> ELSE << >>)
     \o (IF sy # 0 THEN <<Position(pos.x, pos.y + sy)>> ELSE << >>)

\* the candidates of hostile k that are in bounds and Water when k is processed
C15_Qualifying(k) ==
  {i \in DOMAIN C15_Candidates(k) :
     /\ OnMap(C15_Candidates(k)[i])
     /\ get_cell(AfterEntity(k - 1).state.game_map, C15_Candidates(k)[i]) = WATER}

\* C15: an in-range hostile takes the first candidate (diagonal, then
\* horizontal, then vertical) that is in bounds and Water at the moment it is
\* processed, as a collision when that cell is the ship's and as a relocation
\* otherwise; when no candidate qualifies a blocked entry is recorded and
\* the hostile changes nothing.
C15_CandidateOrder ==
  \A k \in InRange :
    LET before == AfterEntity(k - 1).state
        after == AfterEntity(k).state
        pos == PhaseEntities[k].position
    IN IF C15_Qualifying(k) = {}
       THEN /\ EntryOf(k).kind = "blocked"
            /\ after = before
       ELSE LET first == CHOOSE i \in C15_Qualifying(k) :
                           \A j \in C15_Qualifying(k) : i <= j
                chosen == C15_Candidates(k)[first]
            IN /\ EntryOf(k).from = pos
               /\ EntryOf(k).to = chosen
               /\ IF chosen = ship_position
                  THEN EntryOf(k).kind = "collision"
                  ELSE /\ EntryOf(k).kind = "move"
                       /\ after = [before EXCEPT !.game_map =
                                     set_cell(set_cell(@, pos, WATER), chosen,
                                              PhaseEntities[k].type)]

\* the phase has just logged a hostile that found its only step taken by
\* another hostile, and that other hostile running into the ship
C15_Witness ==
  /\ ret.op = "move_enemies_and_monsters"
  /\ \E i \in DOMAIN ret.movements :
       /\ ret.movements[i].kind = "blocked"
       /\ ret.movements[i].entity_type = "Monster"
  /\ \E i \in DOMAIN ret.movements : ret.movements[i].kind = "collision"
  /\ game_map.height = 3

\* the number of cells of a grid that hold cell_type
CountCells(gm, cell_type) == Len(find_cell_type(gm, cell_type))

\* the collisions a movement log records for hostiles called entity_type
CollisionsOf(movements, entity_type) ==
  Cardinality({i \in DOMAIN movements :
                 /\ movements[i].kind = "collision"
                 /\ movements[i].entity_type = entity_type})

\* C16: the pursuit phase relocates hostiles and never creates, duplicates or
\* retypes them: afterwards the number of Enemy cells and the number of
\* Monster cells are the numbers before minus the collisions of that type,
\* the Land and Treasure cells are the same cells, and ship position,
\* cannonballs, score, treasures_collected, the kill counters and the turn
\* counter are unchanged.
C16_HostilesConserved ==
  LET r == move_enemies_and_monsters(Self)
  IN /\ CountCells(r.state.game_map, ENEMY)
          = CountCells(game_map, ENEMY) - CollisionsOf(r.movements, "Enemy")
     /\ CountCells(r.state.game_map, MONSTER)
          = CountCells(game_map, MONSTER) - CollisionsOf(r.movements, "Monster")
     /\ \A cell_type \in {LAND, TREASURE} :
          find_cell_type(r.state.game_map, cell_type)
            = find_cell_type(game_map, cell_type)
     /\ r.state.game_map.width = game_map.width
     /\ r.state.game_map.height = game_map.height
     /\ r.state.ship_position = ship_position
     /\ r.state.cannonballs = cannonballs
     /\ r.state.score = score
     /\ r.state.treasures_collected = treasures_collected
     /\ r.state.enemies_defeated = enemies_defeated
     /\ r.state.monsters_defeated = monsters_defeated
     /\ r.state.turn_count = turn_count

\* the phase has just relocated one hostile and lost another in a collision
\* on a map that holds Land and Treasure
C16_Witness ==
  /\ ret.op = "move_enemies_and_monsters"
  /\ \E i \in DOMAIN ret.movements : ret.movements[i].kind = "move"
  /\ \E i \in DOMAIN ret.movements : ret.movements[i].kind = "collision"
  /\ CountCells(game_map, LAND) > 0
  /\ CountCells(game_map, TREASURE) > 0
  /\ CountCells(game_map, ENEMY) + CountCells(game_map, MONSTER) > 0

\* p comes before q when the grid is read row by row, each row left to right
RowMajorBefore(p, q) == p.y < q.y \/ (p.y = q.y /\ p.x < q.x)

\* C17: the pursuit phase processes the hostiles one after another in
\* row-major order of the cells they hold at the start of the phase; each
\* hostile moves at most one cell per call, also when its new cell comes
\* later in the scan, and a cell taken by an earlier mover of the call is no
\* longer available to a later one.
C17_RowMajorOneStep ==
  LET r == move_enemies_and_monsters(Self)
      log == r.movements
  IN /\ {log[i].from : i \in DOMAIN log}
          = {PhaseEntities[k].position : k \in InRange}
     /\ \A i, j \in DOMAIN log :
          i < j => RowMajorBefore(log[i].from, log[j].from)
     /\ \A i \in DOMAIN log :
          /\ Abs(log[i].to.x - log[i].from.x) <= 1
          /\ Abs(log[i].to.y - log[i].from.y) <= 1
          /\ log[i].kind = "move" =>
               /\ get_cell(r.state.game_map, log[i].to)
                    = get_cell(game_map, log[i].from)
               /\ \A j \in DOMAIN log : j > i => log[j].from # log[i].to
     /\ \A i, j \in DOMAIN log :
          (i < j /\ log[i].kind = "move" /\ log[j].kind = "move") =>
            log[i].to # log[j].to
     /\ \A k \in InRange :
          \A i \in DOMAIN AfterEntity(k - 1).movements :
            AfterEntity(k - 1).movements[i].kind = "move" =>
              EntryOf(k).to # AfterEntity(k - 1).movements[i].to

\* the phase has just moved a hostile to a cell that comes later in the scan,
\* and that cell was the diagonal step of a hostile processed after it, which
\* moved elsewhere
C17_Witness ==
  /\ ret.op = "move_enemies_and_monsters"
  /\ \E i, j \in DOMAIN ret.movements :
       LET first == ret.movements[i]
           second == ret.movements[j]
       IN /\ i < j
          /\ first.kind = "move"
          /\ second.kind = "move"
          /\ RowMajorBefore(second.from, first.to)
          /\ first.to = Position(second.from.x + Sign(ship_position.x - second.from.x),
                                 second.from.y + Sign(ship_position.y - second.from.y))
          /\ second.to # first.to

\* C18: in every reachable state the ship position is inside the map and the
\* grid cell at the ship position is Water (never Land, Treasure, Enemy,
\* Monster or a ship marker).
C18_ShipOnWater ==
  /\ OnMap(ship_position)
  /\ CellAt(ship_position) = WATER

\* C19: in every reachable state score = 10 * treasures_collected
\* + 10 * enemies_defeated + 50 * monsters_defeated; a hostile removed by a
\* collision adds nothing to the score.
C19_ScoreAccounting ==
  score = 10 * treasures_collected + 10 * enemies_defeated
          + 50 * monsters_defeated

\* a treasure has been collected, one hostile has been shot and the other
\* one has been lost in a collision
C19_Witness ==
  /\ treasures_collected = 1
  /\ enemies_defeated + monsters_defeated = 1
  /\ lives < 3
  /\ score \in {20, 60}
  /\ CountCells(game_map, ENEMY) + CountCells(game_map, MONSTER) = 0

QueryOps ==
  {"get_status", "scan_surroundings", "get_targets_in_range",
   "get_possible_moves"}

\* what the query recorded in ret returns when it is called again now
AskedAgain ==
  CASE ret.op = "get_status" -> get_status(Self)
    [] ret.op = "scan_surroundings" ->
         scan_surroundings(Self, ret.radius, ret.blocked)
    [] ret.op = "get_targets_in_range" -> get_targets_in_range(Self)
    [] ret.op = "get_possible_moves" -> get_possible_moves(Self)

\* C20: the queries status, scan_surroundings, targets_in_range and
\* possible_moves are read-only: a query step, in any reachable state and
\* after any other query, leaves the grid, the ship position and every
\* counter and flag as they were, and the same query asked again with no
\* command in between gives the same answer and again changes nothing.
C20_QueriesReadOnly ==
  /\ [](ret.op \in QueryOps =>
          /\ AskedAgain.answer = ret.answer
          /\ AskedAgain.state = Self)
  /\ [][ret'.op \in QueryOps => UNCHANGED fields]_vars

\* possible_moves has just been asked after a move and a collision, and it
\* lists a move the ship can make and one it cannot
C20_Witness ==
  /\ ret.op = "get_possible_moves"
  /\ turn_count > 0
  /\ lives < 3
  /\ \E i \in DOMAIN ret.answer : ret.answer[i].can_move = TRUE
  /\ \E i \in DOMAIN ret.answer : ret.answer[i].can_move = FALSE

\* the encounters of the given type that a move's result records
EncountersOf(move, type) ==
  Len(SelectSeq(move.move_results.encounters, LAMBDA e : e.type = type))

\* C21: possible_moves returns exactly 12 candidates (4 cardinal directions
\* x distances 1, 2, 3); a candidate is reported legal if and only if move
\* with that displacement would succeed in the same state, and for a legal
\* candidate the reported counts of treasures, enemies and monsters on the
\* path equal the treasure and hostile encounters that move would record.
C21_PossibleMovesAgreeWithMove ==
  LET a == get_possible_moves(Self).answer
  IN /\ Len(a) = 12
     /\ {a[i].common.direction : i \in 1..Len(a)}
          = {d \in Directions :
               /\ 1 <= Abs(d.x) + Abs(d.y)
               /\ Abs(d.x) + Abs(d.y) <= 3
               /\ d.x = 0 \/ d.y = 0}
     /\ \A i \in 1..Len(a) :
          LET m == move_ship(Self, a[i].common.direction)
          IN /\ a[i].can_move = m.success
             /\ a[i].can_move =>
                  /\ a[i].treasures_on_path = EncountersOf(m, "treasure")
                  /\ a[i].enemies_on_path = EncountersOf(m, "enemy")
                  /\ a[i].monsters_on_path = EncountersOf(m, "monster")
                  /\ a[i].treasures_on_path = m.move_results.treasures_collected
                  /\ a[i].enemies_on_path + a[i].monsters_on_path
                       = m.move_results.damage_taken

\* possible_moves has just been asked where one legal candidate crosses two
\* enemies and a monster, another one a treasure, and a third is refused
C21_Witness ==
  /\ ret.op = "get_possible_moves"
  /\ ret.answer = get_possible_moves(Self).answer
  /\ \E i \in DOMAIN ret.answer :
       /\ ret.answer[i].can_move
       /\ ret.answer[i].enemies_on_path = 2
       /\ ret.answer[i].monsters_on_path = 1
  /\ \E i \in DOMAIN ret.answer :
       /\ ret.answer[i].can_move
       /\ ret.answer[i].treasures_on_path = 1
  /\ \E i \in DOMAIN ret.answer : ~ret.answer[i].can_move

\* the Enemy and Monster cells of the grid
HostileCells ==
  {p \in [x : 0..(game_map.width - 1), y : 0..(game_map.height - 1)] :
     CellAt(p) \in {ENEMY, MONSTER}}

\* C22: targets_in_range lists exactly the Enemy and Monster cells at
\* Manhattan distance 1 to 5 from the ship, each once, with the distance,
\* threat level High for a Monster and Medium for an Enemy; every listed
\* target passes fire_cannon's range check and no hostile that fire_cannon
\* accepts as in range is missing.
C22_TargetsInRange ==
  LET a == get_targets_in_range(Self).answer
      listed == {a[i]._position : i \in 1..Len(a)}
  IN /\ listed = {p \in HostileCells :
                    1 <= ManhattanToShip(p) /\ ManhattanToShip(p) <= 5}
     /\ Cardinality(listed) = Len(a)
     /\ \A i \in 1..Len(a) :
          /\ a[i].distance = ManhattanToShip(a[i]._position)
          /\ a[i].threat_level
               = (IF CellAt(a[i]._position) = MONSTER THEN "High" ELSE "Medium")
          /\ a[i].type
               = (IF CellAt(a[i]._position) = MONSTER THEN "Monster" ELSE "Enemy")
     /\ cannonballs > 0 =>
          \A p \in HostileCells : \A roll \in Rolls :
            (fire_cannon(Self, p, roll).message.kind # "too_far") <=> p \in listed

\* targets_in_range has just been asked with an enemy within five miles,
\* which it lists, and a monster six miles off, which it leaves out
C22_Witness ==
  /\ ret.op = "get_targets_in_range"
  /\ ret.answer = get_targets_in_range(Self).answer
  /\ \E i \in DOMAIN ret.answer : ret.answer[i].threat_level = "Medium"
  /\ \E p \in HostileCells :
       /\ ManhattanToShip(p) = 6
       /\ Abs(p.x - ship_position.x) <= 5
       /\ Abs(p.y - ship_position.y) <= 5
       /\ CellAt(p) = MONSTER
  /\ cannonballs > 0

\* the cells of the box of the given radius around the ship that are on the
\* map, the ship's own cell left out
BoxCells(radius) ==
  {p \in [x : 0..(game_map.width - 1), y : 0..(game_map.height - 1)] :
     /\ p # ship_position
     /\ Abs(p.x - ship_position.x) <= radius
     /\ Abs(p.y - ship_position.y) <= radius}

\* the cells a list of the scan report speaks of
CellsListed(list) ==
  {Position(ship_position.x + list[i].direction.ew,
            ship_position.y + list[i].direction.ns) : i \in 1..Len(list)}

Ascending(list) ==
  \A i \in 1..Len(list) : \A j \in 1..Len(list) :
    i < j => list[i].distance <= list[j].distance

\* what C23 asks of one list of the report: the box cells of that type, each
\* once, with their Manhattan distance, in ascending order of distance
ListOf(list, radius, cell_type) ==
  /\ CellsListed(list) = {p \in BoxCells(radius) : CellAt(p) = cell_type}
  /\ Cardinality(CellsListed(list)) = Len(list)
  /\ \A i \in 1..Len(list) :
       list[i].distance = Abs(list[i].direction.ew) + Abs(list[i].direction.ns)
  /\ Ascending(list)

\* C23: for every reachable state and radius, scan_surroundings (line-of-sight
\* filter off) returns the in-bounds cells of the square box of that radius
\* around the ship, the ship's cell left out, split into treasure, enemy,
\* monster, land and water lists, each entry with its Manhattan distance and
\* each of the five lists in ascending order of distance; immediate threats
\* are the listed hostiles at distance <= 1 and reachable treasures the listed
\* treasures at distance <= 3.
C23_ScanReport ==
  \A radius \in Radii :
    LET a == scan_surroundings(Self, radius, {}).answer
    IN /\ ListOf(a.treasures_nearby, radius, TREASURE)
       /\ ListOf(a.enemies_nearby, radius, ENEMY)
       /\ ListOf(a.monsters_nearby, radius, MONSTER)
       /\ ListOf(a.land_obstacles, radius, LAND)
       /\ ListOf(a.safe_water_positions, radius, WATER)
       /\ a.immediate_threats
            = SelectSeq(a.enemies_nearby \o a.monsters_nearby,
                        LAMBDA t : t.distance <= 1)
       /\ a.reachable_treasures
            = SelectSeq(a.treasures_nearby, LAMBDA t : t.distance <= 3)

\* how often a command stands in the log of the turn
TimesIn(log, command) == Len(SelectSeq(log, LAMBDA e : e = command))

\* C24: in every completed turn of the game loop the hostile advancement runs
\* exactly once, and it runs after that turn's cannon fire and ship move have
\* been resolved: it is the last command of the turn, and while the crew is
\* still at work it has not run.
C24_PursuitOncePerTurn ==
  ret.op = "game_loop" =>
    /\ ret.completed =>
         /\ TimesIn(ret.log, "move_enemies_and_monsters") = 1
         /\ ret.log[Len(ret.log)] = "move_enemies_and_monsters"
    /\ ret.at \in {"navigator", "cannoneer", "captain", "results"} =>
         TimesIn(ret.log, "move_enemies_and_monsters") = 0
    /\ \A i \in 1..Len(ret.log) : \A j \in 1..Len(ret.log) :
         (ret.log[i] = "move_ship" /\ ret.log[j] = "fire_cannon") => j < i

\* the second turn of a game has run to its end with two shots and a move
\* before the pursuit phase
C24_Witness ==
  /\ ret.op = "game_loop"
  /\ ret.completed
  /\ ret.turn = 2
  /\ TimesIn(ret.log, "fire_cannon") = 2
  /\ TimesIn(ret.log, "move_ship") = 1
  /\ ret.move_result.success

\* the shapes of what the three commands return
MoveMessages == {"moved", "blocked", "outside_map", "distance", "clear"}

FireMessages == {"no_cannonballs", "too_far", "hit", "miss", "empty_water"}

PursuitEntries == {"move", "collision", "blocked"}

\* C25: in every reachable state and for every argument, move, fire_cannon
\* and advance_hostiles run to completion and return a structured outcome
\* instead of raising a fault; in particular the overlap check after a move
\* never ends the move in a fault (it finds no hostile under the ship: the
\* path loop has already turned every hostile on the path into a collision
\* that the result reports).
C25_CommandsReturn ==
  /\ \A d \in Directions :
       LET m == move_ship(Self, d)
       IN /\ ~m.raised
          /\ m.success \in BOOLEAN
          /\ m.message.kind \in MoveMessages
          /\ m.success =>
               /\ get_cell(m.state.game_map, m.state.ship_position)
                    \notin {ENEMY, MONSTER}
               /\ m.move_results.damage_taken = lives - m.state.lives
               /\ m.move_results.damage_taken
                    = EncountersOf(m, "enemy") + EncountersOf(m, "monster")
  /\ \A t \in Targets : \A roll \in RollsAt(t) :
       LET f == fire_cannon(Self, t, roll)
       IN /\ f.success \in BOOLEAN
          /\ f.message.kind \in FireMessages
  /\ LET a == move_enemies_and_monsters(Self)
     IN \A i \in 1..Len(a.movements) : a.movements[i].kind \in PursuitEntries

\* after a shot, a move has just ended on the cell where the enemy stood: the
\* enemy is gone, the life is lost and the result says so
C25_Witness ==
  /\ ret.op = "move_ship"
  /\ ret.success
  /\ ~ret.raised
  /\ ret.damage_taken >= 1
  /\ ret.treasures_collected >= 1
  /\ lives < 3
  /\ cannonballs < 27

Rectangular(layout) ==
  \A y \in 1..Len(layout) : Len(layout[y]) = Len(layout[1])

\* the cells of a layout that hold the ship marker
Markers(layout) ==
  {p \in [x : 0..(MaxCols - 1), y : 0..(MaxRows - 1)] :
     /\ p.y < Len(layout)
     /\ p.x < Len(layout[p.y + 1])
     /\ layout[p.y + 1][p.x + 1] = OWNSHIP}

\* C26: constructing the game state succeeds only for a rectangular layout
\* that contains exactly one ship marker O; it fails for a layout with no O,
\* with more than one O, or with rows of unequal length; after a successful
\* construction the ship is at the marker's cell, no O cell remains in the
\* grid, lives = 3, cannonballs = 25, score = 0, turn counter = 0 and both
\* flags are false.
C26_Construction ==
  ret.op = "GameState" =>
    /\ (ret.raised = None) =>
         /\ Rectangular(ret.layout)
         /\ Cardinality(Markers(ret.layout)) = 1
    /\ (ret.raised = None) =>
         /\ ship_position \in Markers(ret.layout)
         /\ Markers(game_map.grid) = {}
         /\ lives = 3
         /\ cannonballs = 25
         /\ score = 0
         /\ turn_count = 0
         /\ ~game_over
         /\ ~victory

\* C27: over any sequence of move, fire_cannon and advance_hostiles calls on
\* the game state the turn counter equals the number of successful moves so
\* far: it starts at 0, each successful move adds exactly 1 whatever it
\* encounters (and puts the ship on the target), and failed moves,
\* fire_cannon and advance_hostiles change neither the turn counter nor the
\* ship position.
C27_TurnCounter ==
  /\ turn_count = 0
  /\ [][IF ret'.op = "move_ship" /\ ret'.success
        THEN /\ turn_count' = turn_count + 1
             /\ ret'.old_position = ship_position
        ELSE /\ turn_count' = turn_count
             /\ ship_position' = ship_position]_vars
  /\ [](/\ \A d \in Directions :
             LET m == move_ship(Self, d)
             IN IF m.success
                THEN /\ m.state.turn_count = turn_count + 1
                     /\ m.state.ship_position
                          = Position(ship_position.x + d.x, ship_position.y + d.y)
                ELSE m.state = Self
        /\ \A t \in Targets : \A roll \in RollsAt(t) :
             LET f == fire_cannon(Self, t, roll)
             IN /\ f.state.turn_count = turn_count
                /\ f.state.ship_position = ship_position
        /\ LET a == move_enemies_and_monsters(Self)
           IN /\ a.state.turn_count = turn_count
              /\ a.state.ship_position = ship_position)

\* one move has succeeded, across a treasure and an enemy, a shot has been
\* fired, and the move asked for now has been refused: the counter stands at 1
C27_Witness ==
  /\ ret.op = "move_ship"
  /\ ~ret.success
  /\ turn_count = 1
  /\ treasures_collected = 1
  /\ lives < 3
  /\ cannonballs < 27

\* the move collects the last treasure and, on the same path, loses the
\* last life
LastTreasureLastLife(m) ==
  /\ m.success
  /\ m.move_results.treasures_collected >= 1
  /\ m.state.treasures_collected = total_treasures
  /\ m.move_results.damage_taken >= 1
  /\ lives > 0
  /\ m.state.lives <= 0

\* C28: a move that collects the last treasure and on the same path brings
\* lives to 0 or below ends with victory = true and game_over = true, and the
\* game loop reports that turn's outcome as VICTORY rather than DEFEAT.
C28_VictoryBeforeDefeat ==
  /\ \A d \in Directions :
       LET m == move_ship(Self, d)
       IN LastTreasureLastLife(m) =>
            /\ m.state.victory
            /\ m.state.game_over
            /\ process_turn_results(m.state).outcome = "VICTORY"
  /\ (/\ ret.op = "game_loop"
      /\ ret.move_result.success
      /\ ret.move_result.treasures_gained >= 1
      /\ ret.move_result.lives_lost >= 1
      /\ treasures_collected = total_treasures
      /\ lives <= 0) =>
       /\ victory
       /\ game_over
       /\ ret.completed => ret.outcome = "VICTORY"

\* the second turn has run to its end: its move crossed the monster with one
\* life left and then took the only treasure, and the loop reports VICTORY
C28_Witness ==
  /\ ret.op = "game_loop"
  /\ ret.completed
  /\ ret.outcome = "VICTORY"
  /\ ret.move_result.treasures_gained = 1
  /\ ret.move_result.lives_lost = 1
  /\ lives = 0
  /\ victory
  /\ game_over
  /\ HostileCells = {}
  /\ monsters_defeated = 0

\* C29: in every reachable state lives is an integer between 0 and 3
\* inclusive, and no command ever increases it; this holds also for a single
\* move whose path crosses several hostiles and for commands issued after
\* game_over is set.
C29_LivesInRange ==
  /\ lives \in 0..3
  /\ \A d \in Directions :
       /\ move_ship(Self, d).state.lives <= lives
       /\ move_ship(Self, d).state.lives \in 0..3
  /\ move_enemies_and_monsters(Self).state.lives <= lives
  /\ move_enemies_and_monsters(Self).state.lives \in 0..3

\* the Treasure cells of a grid
TreasureCells(gm) ==
  {p \in [x : 0..(gm.width - 1), y : 0..(gm.height - 1)] :
     get_cell(gm, p) = TREASURE}

\* C30: in every reachable state treasures_collected plus the number of
\* Treasure cells in the grid equals the treasure count recorded at load:
\* only a successful move removes a Treasure cell (one for each treasure it
\* collects), hostiles never step onto one, and a cannon shot aimed at a
\* Treasure cell does not destroy it.
C30_TreasuresConserved ==
  /\ treasures_collected + Cardinality(TreasureCells(game_map)) = total_treasures
  /\ \A d \in Directions :
       LET m == move_ship(Self, d)
       IN /\ TreasureCells(m.state.game_map) \subseteq TreasureCells(game_map)
          /\ ~m.success => TreasureCells(m.state.game_map) = TreasureCells(game_map)
          /\ m.success =>
               Cardinality(TreasureCells(game_map))
                 - Cardinality(TreasureCells(m.state.game_map))
                 = m.state.treasures_collected - treasures_collected
  /\ \A t \in Targets : \A roll \in RollsAt(t) :
       LET f == fire_cannon(Self, t, roll)
       IN /\ TreasureCells(f.state.game_map) = TreasureCells(game_map)
          /\ f.state.treasures_collected = treasures_collected
  /\ LET a == move_enemies_and_monsters(Self)
     IN /\ TreasureCells(a.state.game_map) = TreasureCells(game_map)
        /\ a.state.treasures_collected = treasures_collected
        /\ \A i \in 1..Len(a.movements) :
             a.movements[i].kind = "move" =>
               a.movements[i].to \notin TreasureCells(game_map)

\* after a shot, a pursuit phase has just left the enemy blocked behind the
\* treasure that lies between it and the ship
C30_Witness ==
  /\ ret.op = "move_enemies_and_monsters"
  /\ \E i \in DOMAIN ret.movements :
       /\ ret.movements[i].kind = "blocked"
       /\ \E p \in TreasureCells(game_map) :
            /\ Abs(p.x - ret.movements[i].from.x) <= 1
            /\ Abs(p.y - ret.movements[i].from.y) <= 1
  /\ treasures_collected = 0
  /\ cannonballs < 25

\* C31: every hostile that is at Chebyshev distance exactly 1 from the ship
\* when the pursuit phase processes it collides with the ship: its log entry
\* is a collision onto the ship's cell, it is removed from the grid (its cell
\* becomes Water and no other cell receives it) and lives drops by 1; it is
\* never logged as blocked and never moves to another cell.
C31_AdjacentHostileCollides ==
  \A k \in DOMAIN PhaseEntities :
    ChebyshevToShip(PhaseEntities[k].position) = 1 =>
      LET before == AfterEntity(k - 1).state
          after == AfterEntity(k).state
      IN /\ EntryOf(k).kind = "collision"
         /\ EntryOf(k).from = PhaseEntities[k].position
         /\ EntryOf(k).to = ship_position
         /\ after.lives = before.lives - 1
         /\ after.game_map
              = set_cell(before.game_map, PhaseEntities[k].position, WATER)

ManhattanBetween(p, q) == Abs(p.x - q.x) + Abs(p.y - q.y)

ChebyshevBetween(p, q) == Max(Abs(p.x - q.x), Abs(p.y - q.y))

\* C32: every normal (non-collision) step of a hostile in the pursuit phase
\* strictly decreases the hostile's Manhattan distance to the ship and never
\* increases its Chebyshev distance, the hostile is in the new cell after the
\* step, and the distance_to_ship of the log entry is the Chebyshev distance
\* from the new cell to the ship.
C32_StepsApproach ==
  \A k \in InRange :
    EntryOf(k).kind = "move" =>
      LET e == EntryOf(k)
          after == AfterEntity(k).state
      IN /\ e.from = PhaseEntities[k].position
         /\ e.to # e.from
         /\ get_cell(after.game_map, e.to) = PhaseEntities[k].type
         /\ ManhattanBetween(e.to, ship_position)
              < ManhattanBetween(e.from, ship_position)
         /\ ChebyshevBetween(e.to, ship_position)
              <= ChebyshevBetween(e.from, ship_position)
         /\ e.distance_to_ship = ChebyshevBetween(e.to, ship_position)

\* the pursuit phase has just logged a diagonal step that brought a hostile
\* closer in both measures and a sideways step that left the Chebyshev
\* distance as it was
C32_Witness ==
  /\ ret.op = "move_enemies_and_monsters"
  /\ \E i, j \in DOMAIN ret.movements :
       /\ ret.movements[i].kind = "move"
       /\ ret.movements[j].kind = "move"
       /\ ChebyshevBetween(ret.movements[i].to, ship_position)
            < ChebyshevBetween(ret.movements[i].from, ship_position)
       /\ ChebyshevBetween(ret.movements[j].to, ship_position)
            = ChebyshevBetween(ret.movements[j].from, ship_position)
       /\ ManhattanBetween(ret.movements[j].to, ship_position)
            < ManhattanBetween(ret.movements[j].from, ship_position)
       /\ ret.movements[j].distance_to_ship
            = ChebyshevBetween(ret.movements[j].to, ship_position)

\* the cells of the given type among the cells a displacement crosses
CellsOnWalk(d, cell_type) ==
  {i \in DOMAIN WalkCells(ship_position, d) :
     /\ OnMap(WalkCells(ship_position, d)[i])
     /\ CellAt(WalkCells(ship_position, d)[i]) = cell_type}

\* C33: the risk label of a possible_moves candidate follows the priority
\* monsters over enemies over treasures over none: a candidate whose target
\* is outside the map is labelled Off Map, one whose path inside the map
\* crosses Land is labelled Blocked, and otherwise the label is Very
\* Dangerous (with the number of monsters) when a Monster is on the path,
\* else Dangerous (with the number of enemies) when an Enemy is, else
\* Rewarding (with the number of treasures) when a Treasure is, else Safe.
C33_RiskLabel ==
  LET a == get_possible_moves(Self).answer
  IN \A i \in DOMAIN a :
       LET d == a[i].common.direction
           target == Position(ship_position.x + d.x, ship_position.y + d.y)
           monsters == Cardinality(CellsOnWalk(d, MONSTER))
           enemies == Cardinality(CellsOnWalk(d, ENEMY))
           treasures == Cardinality(CellsOnWalk(d, TREASURE))
       IN a[i].risk_assessment =
            IF ~OnMap(target) THEN [level |-> "Off Map", count |-> 0]
            ELSE IF CellsOnWalk(d, LAND) # {}
            THEN [level |-> "Blocked", count |-> 0]
            ELSE IF monsters > 0
            THEN [level |-> "Very Dangerous", count |-> monsters]
            ELSE IF enemies > 0
            THEN [level |-> "Dangerous", count |-> enemies]
            ELSE IF treasures > 0
            THEN [level |-> "Rewarding", count |-> treasures]
            ELSE [level |-> "Safe", count |-> 0]

\* possible_moves has just answered with a candidate that crosses a monster
\* and an enemy and is labelled by the monster, next to candidates labelled
\* Blocked, Off Map and Safe
C33_Witness ==
  /\ ret.op = "get_possible_moves"
  /\ ret.answer = get_possible_moves(Self).answer
  /\ \E i \in DOMAIN ret.answer :
       /\ ret.answer[i].risk_assessment.level = "Very Dangerous"
       /\ ret.answer[i].enemies_on_path >= 1
  /\ \A level \in {"Blocked", "Off Map", "Safe"} :
       \E i \in DOMAIN ret.answer :
         ret.answer[i].risk_assessment.level = level

\* C34: status reports as pursuing exactly the Enemy and Monster cells whose
\* Chebyshev distance to the ship is <= 3, each once with its type and that
\* distance, and these are the hostiles for which a pursuit phase started in
\* the same state writes a movement-log entry.
C34_PursuingAsAdvanced ==
  LET pursuing == get_status(Self).answer.pursuing_entities
      movements == move_enemies_and_monsters(Self).movements
      near == {p \in HostileCells : ChebyshevToShip(p) <= 3}
  IN /\ {pursuing[i].position : i \in DOMAIN pursuing} = near
     /\ Len(pursuing) = Cardinality(near)
     /\ \A i \in DOMAIN pursuing :
          /\ pursuing[i].type = CellAt(pursuing[i].position)
          /\ pursuing[i].distance = ChebyshevToShip(pursuing[i].position)
     /\ {movements[i].from : i \in DOMAIN movements}
          = {pursuing[i].position : i \in DOMAIN pursuing}
     /\ Len(movements) = Len(pursuing)

\* status has just reported a pursuing hostile that is more than three cells
\* away in Manhattan distance, while another hostile is out of pursuit range
C34_Witness ==
  /\ ret.op = "get_status"
  /\ ret.answer.pursuing_entities = get_pursuing_entities(Self)
  /\ \E i \in DOMAIN ret.answer.pursuing_entities :
       ManhattanToShip(ret.answer.pursuing_entities[i].position) > 3
  /\ \E p \in HostileCells : ChebyshevToShip(p) > 3

\* C35: in one turn the cannoneer fires the cannon at most once, so at most
\* one cannonball is consumed per turn, whatever the number of targets in
\* range and whether the shot hits or misses: the log of a turn holds at most
\* one shot, and whatever the language model answers and however the shots
\* fall, the cannoneer node leaves at most one cannonball fewer than it found.
C35_OneShotPerTurn ==
  ret.op = "game_loop" =>
    /\ TimesIn(ret.log, "fire_cannon") <= 1
    /\ ret.at = "cannoneer" =>
         \A fire \in BOOLEAN :
           \A rolls \in [1..Len(get_targets_in_range(Self).answer) -> {0, 99}] :
             LET r == cannoneer_agent(Self, fire, rolls)
             IN /\ TimesIn(r.events, "fire_cannon") <= 1
                /\ cannonballs - r.state.cannonballs <= 1

\* C36: the cannonballs_used field CannoneerTool.fire_cannon returns equals
\* the number of cannonballs the call consumed (cannonballs before the call
\* minus cannonballs after it) for every outcome: hit, miss, shot at a
\* non-hostile cell, out of range, and no ammunition (a result that carries
\* no such field reports no cannonball used).
C36_CannonballsUsed ==
  \A target_pos \in Targets :
    \A roll \in RollsAt(target_pos) :
      LET r == CannoneerTool_fire_cannon(Self, target_pos.x, target_pos.y, roll)
          cannonballs_used ==
            IF "cannonballs_used" \in DOMAIN r.result
            THEN r.result.cannonballs_used ELSE 0
      IN cannonballs_used = cannonballs - r.state.cannonballs

\* C37: once game_over is true it stays true, victory once true stays true,
\* and after game_over has become true no further command changes the game
\* state: lives, score, cannonballs, the ship position and the grid keep the
\* values they had when the game ended, also during the hostile advancement
\* of the turn in which the game ended.
C37_GameOverFreezes ==
  [][/\ victory => victory'
     /\ game_over =>
          /\ game_over'
          /\ lives' = lives
          /\ score' = score
          /\ cannonballs' = cannonballs
          /\ ship_position' = ship_position
          /\ game_map' = game_map]_vars

\* C38: the continuous-mode game loop terminates.  It executes at most 50
\* turns; a new turn starts only while game_over is false, no stop has been
\* requested, fewer than 50 turns have run and no turn has returned STOP,
\* VICTORY or DEFEAT, also after turns that ended with an error the player
\* chose to continue from; and the loop thread, once running, reaches the end
\* of the loop and stays there.
C38_LoopTerminates ==
  /\ [](LoopTurn <= max_turns)
  /\ [][LoopTurn' # LoopTurn =>
          /\ LoopTurn' = LoopTurn + 1
          /\ ~game_over
          /\ ~StopRequested
          /\ LoopTurn < max_turns
          /\ Ashore.outcome \notin {"STOP", "VICTORY", "DEFEAT"}]_vars
  /\ [][Ashore.at = "ended" => Ashore'.at = "ended" /\ LoopTurn' = LoopTurn]_vars
  /\ <>[](Ashore.at = "ended")

\* the loop has been left after its 50th turn, which ended with an error the
\* player chose to continue from
C38_Witness ==
  /\ ret.op = "game_loop"
  /\ ret.at = "ended"
  /\ ret.turn = max_turns
  /\ ~ret.completed
  /\ ret.outcome = "CONTINUE"
  /\ ~game_over
  /\ ~ret.stop_requested

\* C39: in step mode, with the HTTP thread and the game loop interleaving
\* arbitrarily, every step request is followed by the execution of exactly
\* one agent step.  No agent step runs without a request: the signal a step
\* acts on was set by a /step_game request.  The result a request returns is
\* the result of the step that this request triggered, not that of an earlier
\* step.  No request is lost: when the loop resets step_ready, the signal it
\* clears is the one it acted on, not one that arrived while the step was
\* executing.
C39_StepPerRequest ==
  /\ [](ret.op = "step_mode" =>
          /\ ret.at = "stepping" => ret.triggered_by \in 1..ret.requests
          /\ ret.answered.status \notin {"None", "timeout"} =>
               ret.answered.by = ret.answered.request)
  /\ [][(ret.op = "step_mode" /\ ret.step_ready /\ ~ret'.step_ready) =>
          ret.ready_by = ret.triggered_by]_vars

====
